---- MODULE Spec2Model ----
(***************************************************************************)
(* AI request orchestration of the productivity platform: the quota        *)
(* ledger (AIUsageQuota), the request orchestrator                         *)
(* (OpenAIService.process_text), the request log (AIRequestLog) and the    *)
(* asynchronous jobs: note/task processing, their messages and retries,   *)
(* and the productivity insights job.                                      *)
(*                                                                         *)
(* Time is counted in hours.  Database tables are functions from primary   *)
(* keys to rows; a model instance is a record loaded from a row, and a     *)
(* save writes the instance (or the named update_fields) back to the row.  *)
(***************************************************************************)
EXTENDS Integers, Sequences, FiniteSets, TLC

\* ------------------------------------------------------------------ bounds
MaxTicks == 1          \* clock advances per behaviour
MaxRequests == 2       \* largest max_requests of a quota row
MaxTokens == 3         \* largest max_tokens of a quota row
MaxEstimate == 2       \* largest estimated_tokens / tokens_used argument
MaxOps == 2            \* ledger operations per behaviour (quota ledger spec)
MaxCalls == 2          \* process_text calls per behaviour (orchestrator spec)
MaxWords == 2          \* largest word count of an input text
MaxTotalTokens == 1    \* largest usage.total_tokens of a provider response
NumWorkers == 3        \* concurrent update_quota calls (concurrency spec)
MaxEvents == 2         \* user requests per behaviour (job queue spec)

\* timedelta(days=1) in hours
HoursPerDay == 24
\* process_note_with_ai: len(note.content.split()) < 10 is too short
MinWords == 10
\* extract_keywords(note.content, count=8)
KeywordCount == 8
\* estimate_task_time: return 30 when the response holds no number
DefaultMinutes == 30

QuotaTypes == {"daily", "weekly", "monthly"}
\* the quota rows of the one user: unique_together (user, quota_type)
QuotaIds == {"daily", "monthly"}

TickSizes == {1, HoursPerDay, 30 * HoursPerDay}

VARIABLES
    now,        \* timezone.now(), in hours
    ticks,      \* number of clock advances so far
    quotas,     \* table ai_engine_usage_quota: row id -> row
    lastOp,     \* the last ledger method called, its arguments and pre-state
    ops,        \* number of ledger operations so far
    templates,  \* table ai_engine_template: id -> row
    logs,       \* table ai_engine_request_log: the rows in insertion order
    call,       \* the process_text call in progress: position and locals
    calls,      \* number of process_text calls started so far
    workers,    \* concurrent workers in update_quota: position and instance
    notes,      \* table notes_note: id -> row
    tasks,      \* table tasks_task: id -> row
    job,        \* the processing job being run: position and locals
    queue,      \* the Celery messages sent and not yet taken by the worker
    trigger,    \* the last post_save trigger or manual trigger request
    events,     \* number of user requests (save, trigger, delete) so far
    metrics,    \* table tasks_productivity_metrics: the set of rows
    insights,   \* table ai_engine_insight: the rows in insertion order
    view,       \* the analyze_text / analyze_task request being served
    cache,      \* the Django cache: key -> value (a missing key is unset)
    mw,         \* the requests inside RateLimitMiddleware: position and locals
    parse,      \* a response text, and what its parser returned for it
    rules       \* table core_rate_limit_rule: id -> row

clockVars == <<now, ticks>>
ledgerVars == <<lastOp, ops>>
orchVars == <<templates, logs, call, calls>>
concVars == <<workers>>
jobVars == <<notes, tasks, job, queue, trigger, events>>
insVars == <<metrics, insights>>
webVars == <<view, cache, mw, parse, rules>>
\* what the ledger methods, the orchestrator and the workers leave alone
offLedger == <<orchVars, concVars, jobVars, insVars, webVars>>
offOrch == <<ledgerVars, concVars, jobVars, insVars, webVars>>
offConc == <<clockVars, ledgerVars, orchVars, jobVars, insVars, webVars>>
vars == <<now, ticks, quotas, lastOp, ops, templates, logs, call, calls, workers,
          notes, tasks, job, queue, trigger, events, metrics, insights,
          view, cache, mw, parse, rules>>

\* ------------------------------------------------------ AIUsageQuota (models.py)

\* faulty variant: a month of 31 days
PeriodHours_calendar(quota_type) ==
    CASE quota_type = "daily" -> HoursPerDay
      [] quota_type = "weekly" -> 7 * HoursPerDay
      [] quota_type = "monthly" -> 31 * HoursPerDay
      [] OTHER -> 0

\* the period by which reset_if_needed rolls reset_date forward
PeriodHours(quota_type) ==
    CASE quota_type = "daily" -> HoursPerDay
      [] quota_type = "weekly" -> 7 * HoursPerDay
      [] quota_type = "monthly" -> 30 * HoursPerDay
      [] OTHER -> 0

\* faulty variant: the request limit compared with > in place of >=
can_make_request_gt(q, estimated_tokens) ==
    IF ~q.is_active THEN FALSE
    ELSE IF q.used_requests > q.max_requests THEN FALSE
    ELSE IF q.used_tokens + estimated_tokens > q.max_tokens THEN FALSE
    ELSE TRUE

\* AIUsageQuota.can_make_request: three early returns, then True
can_make_request(q, estimated_tokens) ==
    IF ~q.is_active THEN FALSE
    ELSE IF q.used_requests >= q.max_requests THEN FALSE
    ELSE IF q.used_tokens + estimated_tokens > q.max_tokens THEN FALSE
    ELSE TRUE

\* Model.save(): every column of the row is written from the instance
save(db, id, inst) == [db EXCEPT ![id] = inst]

\* Model.save(update_fields=fields): only the named columns are written
save_update_fields(db, id, inst, fields) ==
    [db EXCEPT ![id] = [f \in DOMAIN @ |-> IF f \in fields THEN inst[f] ELSE @[f]]]

\* faulty variant: the two increments exchanged
consume_usage_fields_swapped(q, tokens_used) ==
    [q EXCEPT !.used_requests = @ + tokens_used, !.used_tokens = @ + 1]

\* AIUsageQuota.consume_usage, the in-memory part: the two counters of self
consume_usage_fields(q, tokens_used) ==
    [q EXCEPT !.used_requests = @ + 1, !.used_tokens = @ + tokens_used]

\* AIUsageQuota.consume_usage on the instance q of row id: the new table
consume_usage(db, id, q, tokens_used) ==
    save_update_fields(db, id, consume_usage_fields(q, tokens_used),
                       {"used_requests", "used_tokens"})

\* faulty variant: the reset applied whether or not reset_date has passed
reset_needed_always(q, t) == TRUE

\* the condition of reset_if_needed: timezone.now() >= self.reset_date
reset_needed(q, t) == t >= q.reset_date

\* AIUsageQuota.reset_if_needed, the in-memory part at time t
reset_fields(q, t) ==
    [q EXCEPT !.used_requests = 0,
              !.used_tokens = 0,
              !.reset_date = IF q.quota_type \in QuotaTypes
                             THEN t + PeriodHours(q.quota_type) ELSE @]

\* AIUsageQuota.reset_if_needed on the instance q of row id at time t: the
\* instance after the call
reset_if_needed_inst(q, t) == IF reset_needed(q, t) THEN reset_fields(q, t) ELSE q

\* ... and the table after the call (self.save() only inside the if)
reset_if_needed(db, id, q, t) ==
    IF reset_needed(q, t) THEN save(db, id, reset_fields(q, t)) ELSE db

\* ------------------------------------------- OpenAIService (services.py)

\* the response_data of a call that has not got one
NoResponse == [success |-> FALSE, tokens_total |-> 0, response_text |-> <<>>]

\* no process_text call in progress
IdleCall ==
    [pc |-> "idle", id |-> 0, words |-> 0, rtype |-> "", tname |-> "", kw |-> {},
     est |-> 0, template |-> 0, resp |-> NoResponse, exc |-> "none",
     steps |-> <<>>, pre |-> <<>>, chk |-> <<>>, t0 |-> 0,
     outcome |-> "", provider_calls |-> 0]

\* last_ai_processed = None
NoTime == 0 - 1

\* no job running
IdleJob ==
    [pc |-> "idle", kind |-> "", id |-> 0, retries |-> 0, inst |-> <<>>, op |-> 0,
     results |-> <<>>, status |-> "", gone |-> FALSE, pre |-> <<>>]

\* no endpoint request being served
IdleView ==
    [pc |-> "idle", endpoint |-> "", type |-> "", words |-> 0, title_words |-> 0,
     description_words |-> 0, ops |-> <<>>, op |-> 0, results |-> <<>>,
     exc |-> "none", status |-> 0, pre |-> <<>>]

\* no response text being parsed
NoParse == [pc |-> "none", fn |-> "", text |-> <<>>, count |-> 0, out |-> <<>>]

\* no trigger has run
NoTrigger == [name |-> "none", kind |-> "", id |-> 0, user |-> 0, owner |-> 0,
              updated_at |-> 0, last_ai_processed |-> 0,
              before |-> <<>>, after |-> <<>>]

\* the workers of the concurrency spec
Workers == 1..NumWorkers
NoInstance == [id |-> "none"]
IdleWorkers == [w \in Workers |-> [pc |-> "idle", inst |-> NoInstance]]

\* ------------------------------------------------------------ quota ledger spec

QuotaRows(quota_type) ==
    [quota_type : {quota_type},
     max_requests : {1, MaxRequests},
     max_tokens : {MaxTokens},
     used_requests : {0, MaxRequests - 1},
     used_tokens : 0..1,
     reset_date : {0, HoursPerDay},
     is_active : BOOLEAN]

NoOp == [name |-> "none", id |-> "monthly", arg |-> 0, result |-> FALSE,
         pre |-> <<>>, at |-> 0, rep |-> 0, pre0 |-> <<>>, at0 |-> 0]

QuotaInit ==
    /\ now = 1
    /\ ticks = 0
    /\ ops = 0
    /\ \E m \in QuotaRows("monthly"), d \in QuotaRows("daily"),
          w \in QuotaRows("weekly") :
          /\ d.max_requests = 1 /\ d.used_requests = 0 /\ d.used_tokens = 0
          /\ d.reset_date = 0 /\ d.is_active
          /\ w.max_requests = MaxRequests /\ w.used_requests = MaxRequests - 1
          /\ w.used_tokens = 1 /\ w.reset_date = HoursPerDay /\ w.is_active
          /\ quotas = [id \in QuotaTypes |->
                         IF id = "monthly" THEN m ELSE IF id = "daily" THEN d ELSE w]
    /\ lastOp = NoOp
    /\ templates = <<>>
    /\ logs = <<>>
    /\ call = IdleCall
    /\ calls = 0
    /\ workers = IdleWorkers
    /\ notes = <<>>
    /\ tasks = <<>>
    /\ job = IdleJob
    /\ queue = <<>>
    /\ trigger = NoTrigger
    /\ events = 0
    /\ metrics = {}
    /\ insights = <<>>
    /\ view = IdleView
    /\ cache = <<>>
    /\ mw = <<>>
    /\ rules = <<>>
    /\ parse = NoParse

\* the record of a method call; consecutive calls of the same method on the
\* same row less than a day apart count as a repetition
OpRecord(name, id, arg, result) ==
    LET again == /\ lastOp.name = name
                 /\ lastOp.id = id
                 /\ lastOp.rep = 1
                 /\ now - lastOp.at0 < HoursPerDay
    IN [name |-> name, id |-> id, arg |-> arg, result |-> result,
        pre |-> quotas, at |-> now,
        rep |-> IF again THEN 2 ELSE 1,
        pre0 |-> IF again THEN lastOp.pre0 ELSE quotas,
        at0 |-> IF again THEN lastOp.at0 ELSE now]

Tick ==
    /\ ticks < MaxTicks
    /\ \E d \in TickSizes : now' = now + d
    /\ ticks' = ticks + 1

QTick == Tick /\ UNCHANGED <<quotas, ledgerVars, offLedger>>

QCanMakeRequest ==
    /\ ops < MaxOps
    /\ \E id \in DOMAIN quotas, est \in {0, MaxEstimate} :
          lastOp' = OpRecord("can_make_request", id, est,
                             can_make_request(quotas[id], est))
    /\ ops' = ops + 1
    /\ UNCHANGED <<clockVars, quotas, offLedger>>

QConsumeUsage ==
    /\ ops < MaxOps
    /\ \E id \in DOMAIN quotas, t \in {0, MaxEstimate} :
          /\ quotas' = consume_usage(quotas, id, quotas[id], t)
          /\ lastOp' = OpRecord("consume_usage", id, t, TRUE)
    /\ ops' = ops + 1
    /\ UNCHANGED <<clockVars, offLedger>>

QResetIfNeeded ==
    /\ ops < MaxOps
    /\ \E id \in DOMAIN quotas :
          /\ quotas' = reset_if_needed(quotas, id, quotas[id], now)
          /\ lastOp' = OpRecord("reset_if_needed", id, 0, TRUE)
    /\ ops' = ops + 1
    /\ UNCHANGED <<clockVars, offLedger>>

QuotaNext == QTick \/ QCanMakeRequest \/ QConsumeUsage \/ QResetIfNeeded

SpecQuota == QuotaInit /\ [][QuotaNext]_vars

\* C8: can_make_request(estimated_tokens) is true exactly when the quota is
\* active, used_requests < max_requests and used_tokens + estimated_tokens <=
\* max_tokens (so false at used_requests >= max_requests), and the call
\* changes no quota row.
C8_CanMakeRequestExact ==
    lastOp.name = "can_make_request" =>
        LET q == lastOp.pre[lastOp.id] IN
        /\ lastOp.result = (/\ q.is_active
                            /\ q.used_requests < q.max_requests
                            /\ q.used_tokens + lastOp.arg <= q.max_tokens)
        /\ (q.used_requests >= q.max_requests => lastOp.result = FALSE)
        /\ quotas = lastOp.pre

\* the spec's example: an active row at used_requests = max_requests = 2,
\* with room for the tokens, was checked
C8_Witness ==
    /\ lastOp.name = "can_make_request"
    /\ lastOp.pre[lastOp.id].is_active
    /\ lastOp.pre[lastOp.id].max_requests = 2
    /\ lastOp.pre[lastOp.id].used_requests = 2
    /\ lastOp.pre[lastOp.id].used_tokens + lastOp.arg <= lastOp.pre[lastOp.id].max_tokens

\* C9: consume_usage(tokens_used) adds exactly 1 to used_requests and exactly
\* tokens_used to used_tokens of its row and changes nothing else: no other
\* column of the row and no other row.
C9_ConsumeFrame ==
    lastOp.name = "consume_usage" =>
        LET q == lastOp.pre[lastOp.id]
            r == quotas[lastOp.id]
        IN /\ r.used_requests = q.used_requests + 1
           /\ r.used_tokens = q.used_tokens + lastOp.arg
           /\ r.max_requests = q.max_requests
           /\ r.max_tokens = q.max_tokens
           /\ r.reset_date = q.reset_date
           /\ r.is_active = q.is_active
           /\ r.quota_type = q.quota_type
           /\ \A id \in DOMAIN quotas \ {lastOp.id} : quotas[id] = lastOp.pre[id]

\* a consume of two tokens on a row whose counters were not zero
C9_Witness ==
    /\ lastOp.name = "consume_usage"
    /\ lastOp.arg = 2
    /\ lastOp.pre[lastOp.id].used_requests = 1
    /\ lastOp.pre[lastOp.id].used_tokens = 1

ResetPre == lastOp.pre[lastOp.id]
ResetPost == quotas[lastOp.id]
\* the call left every other row, and the limits and the flag of its own
\* row, as they were
ResetFrame ==
    /\ \A id \in DOMAIN quotas \ {lastOp.id} : quotas[id] = lastOp.pre[id]
    /\ ResetPost.max_requests = ResetPre.max_requests
    /\ ResetPost.max_tokens = ResetPre.max_tokens
    /\ ResetPost.is_active = ResetPre.is_active
    /\ ResetPost.quota_type = ResetPre.quota_type
\* 1, 7 and 30 days
PeriodOfType(quota_type) ==
    IF quota_type = "daily" THEN 24
    ELSE IF quota_type = "weekly" THEN 7 * 24 ELSE 30 * 24

ResponseTexts == {<<"H", "i", "g", "h">>, <<"a", ",", " ", "b">>}

\* (request_type, template_name, names of the keyword arguments) of a call:
\* as summarize_text and extract_keywords make it, and with the name or the
\* count left out
CallInputs ==
    {<<"summarize", "summarize_medium", {}>>,
     <<"summarize", "summarize_short", {}>>,
     <<"summarize", "", {}>>,
     <<"extract_keywords", "", {"count"}>>,
     <<"extract_keywords", "", {}>>}

\* the rows of ai_engine_template, by id: an inactive and two active
\* templates of one type, and one of another type
TemplateRows ==
    <<[name |-> "summarize_short", template_type |-> "summarize",
       placeholders |-> {"content"}, is_active |-> FALSE],
      [name |-> "summarize_medium", template_type |-> "summarize",
       placeholders |-> {"content"}, is_active |-> TRUE],
      [name |-> "keywords", template_type |-> "extract_keywords",
       placeholders |-> {"content", "count"}, is_active |-> TRUE],
      [name |-> "summarize_long", template_type |-> "summarize",
       placeholders |-> {"content"}, is_active |-> TRUE]>>

\* what client.chat.completions.create can do: answer with a usage count, or
\* raise one of the provider's errors
ProviderOutcomes ==
    [kind : {"ok"}, tokens_total : 0..MaxTotalTokens, text : ResponseTexts]
    \cup [kind : {"RateLimitError", "AuthenticationError", "BadRequestError",
                  "Exception"},
          tokens_total : {0}, text : {<<>>}]

\* int(len(text.split()) * 1.3)
estimate_tokens(words) == (words * 13) \div 10

\* faulty variant: the quota_type filter left out
monthly_quota_any_type(db) == {id \in DOMAIN db : db[id].is_active}

\* AIUsageQuota.objects.filter(user, quota_type='monthly', is_active=True):
\* the ids of the matching rows (at most one: unique_together)
monthly_quota(db) ==
    {id \in DOMAIN db : db[id].quota_type = "monthly" /\ db[id].is_active}

\* BaseAIService.check_quota: the value returned
check_quota(db, estimated_tokens, t) ==
    IF monthly_quota(db) = {} THEN TRUE
    ELSE LET id == CHOOSE i \in monthly_quota(db) : TRUE
         IN can_make_request(reset_if_needed_inst(db[id], t), estimated_tokens)

\* BaseAIService.check_quota: the table it leaves (quota.reset_if_needed())
check_quota_db(db, t) ==
    IF monthly_quota(db) = {} THEN db
    ELSE LET id == CHOOSE i \in monthly_quota(db) : TRUE
         IN reset_if_needed(db, id, db[id], t)

\* BaseAIService.update_quota: load the active monthly row and consume
update_quota(db, tokens_used) ==
    IF monthly_quota(db) = {} THEN db
    ELSE LET id == CHOOSE i \in monthly_quota(db) : TRUE
         IN consume_usage(db, id, db[id], tokens_used)

\* faulty variant: the is_active filter left out
find_template_any(tbl, request_type, template_name) ==
    LET m == {i \in DOMAIN tbl :
                /\ tbl[i].template_type = request_type
                /\ (template_name # "" => tbl[i].name = template_name)}
    IN IF m = {} THEN 0 ELSE CHOOSE i \in m : \A j \in m : i <= j

\* faulty variant: the last matching row in place of the first
find_template_last(tbl, request_type, template_name) ==
    LET m == {i \in DOMAIN tbl :
                /\ tbl[i].is_active
                /\ tbl[i].template_type = request_type
                /\ (template_name # "" => tbl[i].name = template_name)}
    IN IF m = {} THEN 0 ELSE CHOOSE i \in m : \A j \in m : i >= j

\* AITemplate.objects.filter(...).first(): the lowest id among the active
\* templates of the type (and of the name, when one is given), 0 for None
find_template(tbl, request_type, template_name) ==
    LET m == {i \in DOMAIN tbl :
                /\ tbl[i].is_active
                /\ tbl[i].template_type = request_type
                /\ (template_name # "" => tbl[i].name = template_name)}
    IN IF m = {} THEN 0 ELSE CHOOSE i \in m : \A j \in m : i <= j

\* AITemplate.format_prompt(content=text, **kwargs) raises KeyError unless
\* every placeholder is supplied
format_prompt_ok(template, kw) == template.placeholders \subseteq ({"content"} \cup kw)

\* faulty variant: a provider error returned as response_data, not raised
make_request_swallow(o) ==
    IF o.kind = "ok"
    THEN [exc |-> "none",
          resp |-> [success |-> TRUE, tokens_total |-> o.tokens_total,
                    response_text |-> o.text]]
    ELSE [exc |-> "none",
          resp |-> [success |-> FALSE, tokens_total |-> 1, response_text |-> <<>>]]

\* faulty variant: the rate-limit signal handled by the last except clause
make_request_one_error(o) ==
    IF o.kind = "ok"
    THEN [exc |-> "none",
          resp |-> [success |-> TRUE, tokens_total |-> o.tokens_total,
                    response_text |-> o.text]]
    ELSE [exc |-> "AIServiceError", resp |-> NoResponse]

\* OpenAIService._make_request: the response_data returned, or the
\* exception the provider's error is converted to
make_request(o) ==
    IF o.kind = "ok"
    THEN [exc |-> "none",
          resp |-> [success |-> TRUE, tokens_total |-> o.tokens_total,
                    response_text |-> o.text]]
    ELSE IF o.kind = "RateLimitError"
    THEN [exc |-> "AIRateLimitError", resp |-> NoResponse]
    ELSE [exc |-> "AIServiceError", resp |-> NoResponse]

\* OpenAIService._make_request: client.chat.completions.create is called
\* once in the try block, and no except clause calls it again
provider_requests(o) == 1

\* if response_data.get('tokens_total'): a count of 0 is falsy
consumes(resp) == resp.tokens_total # 0

\* BaseAIService.log_request: AIRequestLog.objects.create(user, **log_data);
\* the insert is taken to succeed (the store's column constraints are not
\* part of this model)
log_request(rows, c) ==
    Append(rows, [call |-> c.id, request_type |-> c.rtype,
                  template_used |-> c.template, success |-> c.resp.success,
                  tokens_total |-> c.resp.tokens_total])

OrchQuotaRows(quota_type) ==
    [quota_type : {quota_type},
     max_requests : {1, MaxRequests},
     max_tokens : {1, MaxTokens},
     used_requests : 0..1,
     used_tokens : 0..1,
     reset_date : {0, HoursPerDay},
     is_active : BOOLEAN]

Init ==
    /\ now = 1
    /\ ticks = 0
    /\ \E m \in OrchQuotaRows("monthly"), d \in OrchQuotaRows("daily"),
          w \in OrchQuotaRows("weekly") :
          /\ m.used_tokens = m.used_requests
          /\ d.max_requests = 1 /\ d.max_tokens = 1
          /\ d.used_requests = 1 /\ d.used_tokens = 1
          /\ d.reset_date = HoursPerDay /\ d.is_active
          /\ w.max_requests = 1 /\ w.max_tokens = 1
          /\ w.used_requests = 1 /\ w.used_tokens = 1
          /\ w.reset_date = 0 /\ w.is_active
          /\ quotas = [id \in QuotaTypes |->
                         IF id = "monthly" THEN m ELSE IF id = "daily" THEN d ELSE w]
    /\ templates = TemplateRows
    /\ logs = <<>>
    /\ call = IdleCall
    /\ calls = 0
    /\ workers = IdleWorkers
    /\ notes = <<>>
    /\ tasks = <<>>
    /\ job = IdleJob
    /\ queue = <<>>
    /\ trigger = NoTrigger
    /\ events = 0
    /\ metrics = {}
    /\ insights = <<>>
    /\ view = IdleView
    /\ cache = <<>>
    /\ mw = <<>>
    /\ rules = <<>>
    /\ parse = NoParse
    /\ lastOp = NoOp
    /\ ops = 0

\* the clock is read only by check_quota, the first step of a call: an
\* advance during a call acts as one before it or after it
OTick == call.pc = "idle" /\ Tick /\ UNCHANGED <<quotas, orchVars, offOrch>>

\* process_text is entered: estimated_tokens
PTStart ==
    /\ call.pc = "idle"
    /\ calls < MaxCalls
    /\ \E w \in {0, MaxWords}, in \in CallInputs :
          call' = [IdleCall EXCEPT !.pc = "check_quota", !.id = calls + 1,
                                   !.words = w, !.rtype = in[1], !.tname = in[2],
                                   !.kw = in[3], !.est = estimate_tokens(w),
                                   !.pre = quotas, !.chk = quotas]
    /\ calls' = calls + 1
    /\ UNCHANGED <<clockVars, quotas, offOrch, templates, logs>>

\* if not self.check_quota(int(estimated_tokens)): raise AIQuotaExceededError
PTCheckQuota ==
    /\ call.pc = "check_quota"
    /\ quotas' = check_quota_db(quotas, now)
    /\ call' = [call EXCEPT
          !.pc = IF check_quota(quotas, call.est, now) THEN "template" ELSE "raised",
          !.exc = IF check_quota(quotas, call.est, now) THEN "none"
                  ELSE "AIQuotaExceededError",
          !.steps = Append(@, "check_quota"),
          !.chk = quotas',
          !.t0 = now]
    /\ UNCHANGED <<clockVars, offOrch, templates, logs, calls>>

\* the template lookup; if not template: raise AIServiceError
PTTemplate ==
    /\ call.pc = "template"
    /\ LET t == find_template(templates, call.rtype, call.tname) IN
       call' = [call EXCEPT !.pc = IF t = 0 THEN "raised" ELSE "render",
                            !.exc = IF t = 0 THEN "AIServiceError" ELSE "none",
                            !.template = t,
                            !.steps = Append(@, "template")]
    /\ UNCHANGED <<clockVars, quotas, offOrch, templates, logs, calls>>

\* template.format_prompt; KeyError becomes AIServiceError
PTRender ==
    /\ call.pc = "render"
    /\ LET ok == format_prompt_ok(templates[call.template], call.kw) IN
       call' = [call EXCEPT !.pc = IF ok THEN "provider" ELSE "raised",
                            !.exc = IF ok THEN "none" ELSE "AIServiceError",
                            !.steps = Append(@, "render")]
    /\ UNCHANGED <<clockVars, quotas, offOrch, templates, logs, calls>>

\* response_data = self._make_request(...): an exception leaves process_text
PTProvider ==
    /\ call.pc = "provider"
    /\ \E o \in ProviderOutcomes :
          LET r == make_request(o) IN
          call' = [call EXCEPT !.pc = IF r.exc = "none" THEN "log" ELSE "raised",
                               !.exc = r.exc,
                               !.resp = r.resp,
                               !.outcome = o.kind,
                               !.provider_calls = @ + provider_requests(o),
                               !.steps = Append(@, "provider")]
    /\ UNCHANGED <<clockVars, quotas, offOrch, templates, logs, calls>>

\* self.log_request(log_data)
PTLog ==
    /\ call.pc = "log"
    /\ logs' = log_request(logs, call)
    /\ call' = [call EXCEPT !.pc = "update_quota", !.steps = Append(@, "log")]
    /\ UNCHANGED <<clockVars, quotas, offOrch, templates, calls>>

\* if response_data.get('tokens_total'): self.update_quota(...); return
PTUpdateQuota ==
    /\ call.pc = "update_quota"
    /\ quotas' = IF consumes(call.resp)
                 THEN update_quota(quotas, call.resp.tokens_total) ELSE quotas
    /\ call' = [call EXCEPT
          !.pc = "returned",
          !.steps = IF consumes(call.resp) THEN Append(@, "update_quota") ELSE @]
    /\ UNCHANGED <<clockVars, offOrch, templates, logs, calls>>

\* the caller has the result (or the exception)
PTFinish ==
    /\ call.pc \in {"returned", "raised"}
    /\ call' = IdleCall
    /\ UNCHANGED <<clockVars, quotas, offOrch, templates, logs, calls>>

Next ==
    \/ OTick
    \/ PTStart
    \/ PTCheckQuota
    \/ PTTemplate
    \/ PTRender
    \/ PTProvider
    \/ PTLog
    \/ PTUpdateQuota
    \/ PTFinish

Spec == Init /\ [][Next]_vars

\* the call in progress has ended
CallEnded == call.pc \in {"returned", "raised"}
\* the rows of the request log the call in progress has created
CallLogRows == {i \in DOMAIN logs : logs[i].call = call.id}
\* the provider call of the call in progress failed
ProviderFailed ==
    /\ call.pc = "raised"
    /\ Len(call.steps) > 0
    /\ call.steps[Len(call.steps)] = "provider"

\* the steps the call in progress has made
CallSteps == {call.steps[i] : i \in DOMAIN call.steps}
\* the active monthly row existed when the call began
HadMonthlyQuota == monthly_quota(call.pre) # {}

\* C1 (as claimed): a call that reached the provider call has created exactly
\* one AIRequestLog row when it ends, and after a failed provider call that
\* row has success = false.
C1_OneLogPerAttempt ==
    (CallEnded /\ "provider" \in CallSteps) =>
        /\ Cardinality(CallLogRows) = 1
        /\ (ProviderFailed => \A i \in CallLogRows : logs[i].success = FALSE)

\* C2 (as claimed): after a call whose provider call failed, used_requests
\* and used_tokens of the user's monthly quota are what they were before the
\* call.
C2_FailedCallCountersUnchanged ==
    ProviderFailed =>
        /\ quotas["monthly"].used_requests = call.pre["monthly"].used_requests
        /\ quotas["monthly"].used_tokens = call.pre["monthly"].used_tokens

\* a step that changes a counter of row id is the consumption that follows a
\* successful provider response, or the reset of the admission check
CounterChangeAllowed(id) ==
    \/ /\ call.pc = "update_quota"
       /\ call.resp.success
       /\ quotas'[id].used_requests = quotas[id].used_requests + 1
       /\ quotas'[id].used_tokens = quotas[id].used_tokens + call.resp.tokens_total
    \/ /\ call.pc = "check_quota"
       /\ now >= quotas[id].reset_date
       /\ quotas'[id].used_requests = 0
       /\ quotas'[id].used_tokens = 0

\* C2 (amended): a call whose provider call fails consumes nothing: when it
\* ends the quota table is as the admission check left it (the counters as
\* before the call, or both 0 when reset_date had passed), and in every
\* sequence of calls a counter is increased only after a successful provider
\* response.
C2_FailedCallConsumesNothing ==
    /\ [](ProviderFailed =>
            /\ quotas = call.chk
            /\ LET p == call.pre["monthly"]
                   r == quotas["monthly"]
               IN IF p.is_active /\ call.t0 >= p.reset_date
                  THEN r.used_requests = 0 /\ r.used_tokens = 0
                  ELSE /\ r.used_requests = p.used_requests
                       /\ r.used_tokens = p.used_tokens)
    /\ [][\A id \in QuotaIds :
            (\/ quotas'[id].used_requests # quotas[id].used_requests
             \/ quotas'[id].used_tokens # quotas[id].used_tokens)
            => CounterChangeAllowed(id)]_vars

\* a failed provider call in a call whose admission check reset used counters
C2_Witness ==
    /\ ProviderFailed
    /\ call.pre["monthly"].used_requests > 0
    /\ call.pre["monthly"].used_tokens > 0
    /\ quotas["monthly"].used_requests = 0

\* C5 (as claimed): when process_text raises AIQuotaExceededError the call
\* has created no AIRequestLog row and the quota rows are exactly as before
\* the call.
C5_QuotaExceededNoMutation ==
    (call.pc = "raised" /\ call.exc = "AIQuotaExceededError") =>
        /\ CallLogRows = {}
        /\ quotas = call.pre

\* C5 (amended): when process_text raises AIQuotaExceededError the call has
\* created no AIRequestLog row and consumed nothing; the monthly row is as
\* before the call when its reset_date had not passed, and otherwise it is
\* that row reset: both counters 0 and reset_date 30 days after the check.
C5_QuotaExceededOnlyReset ==
    (call.pc = "raised" /\ call.exc = "AIQuotaExceededError") =>
        /\ CallLogRows = {}
        /\ quotas["daily"] = call.pre["daily"]
        /\ LET p == call.pre["monthly"] IN
           quotas["monthly"] =
              IF call.t0 >= p.reset_date
              THEN [p EXCEPT !.used_requests = 0, !.used_tokens = 0,
                             !.reset_date = call.t0 + 30 * HoursPerDay]
              ELSE p

\* the call was refused after its admission check had reset a used row
C5_Witness ==
    /\ call.pc = "raised"
    /\ call.exc = "AIQuotaExceededError"
    /\ call.t0 >= call.pre["monthly"].reset_date
    /\ call.pre["monthly"].used_requests > 0
    /\ quotas["monthly"].used_requests = 0

\* C6 (as claimed): a call that returns after a successful provider response
\* with total token count T has created exactly one AIRequestLog row, with
\* success = true and tokens_total = T, and has consumed the active monthly
\* quota once: used_requests is 1 more and used_tokens T more than after the
\* admission check.
C6_SuccessLogsAndConsumes ==
    (call.pc = "returned" /\ HadMonthlyQuota) =>
        /\ Cardinality(CallLogRows) = 1
        /\ \A i \in CallLogRows :
              logs[i].success /\ logs[i].tokens_total = call.resp.tokens_total
        /\ quotas["monthly"].used_requests = call.chk["monthly"].used_requests + 1
        /\ quotas["monthly"].used_tokens =
              call.chk["monthly"].used_tokens + call.resp.tokens_total

\* the monthly row, as the admission check left it, does not admit the call
QuotaBlocks ==
    LET r == call.chk["monthly"] IN
    \/ ~r.is_active
    \/ r.used_requests >= r.max_requests
    \/ r.used_tokens + call.est > r.max_tokens

\* C7 (as claimed): once the admission check is done, a call whose monthly
\* quota (after reset-if-elapsed) is inactive, or at its request limit, or
\* short of the estimated tokens has raised AIQuotaExceededError with no
\* other step made and no log row; a call goes on only when the quota passes.
C7_AdmissionBlocks ==
    call.pc \notin {"idle", "check_quota"} =>
        /\ QuotaBlocks =>
              /\ call.pc = "raised"
              /\ call.exc = "AIQuotaExceededError"
              /\ call.steps = <<"check_quota">>
              /\ CallLogRows = {}
        /\ ~QuotaBlocks => call.exc # "AIQuotaExceededError"

\* the steps of process_text in the order of its code
StepOrder == <<"check_quota", "template", "render", "provider", "log", "update_quota">>
\* the position of a step in that order
StepIndex(step) == CHOOSE i \in DOMAIN StepOrder : StepOrder[i] = step
\* no active template has the type (and the name, when one is given) of the
\* call in progress
NoTemplateMatches ==
    ~ \E i \in DOMAIN templates :
         /\ templates[i].is_active
         /\ templates[i].template_type = call.rtype
         /\ (call.tname # "" => templates[i].name = call.tname)
\* the resolved template names a placeholder the call supplies no value for
PlaceholderMissing ==
    /\ call.template \in DOMAIN templates
    /\ \E p \in templates[call.template].placeholders : p \notin call.kw \cup {"content"}
\* the call in progress ended at the given step with AIServiceError, without
\* a provider call, a log row or a change of the quota table
FailedFastAt(step) ==
    /\ call.pc = "raised"
    /\ call.exc = "AIServiceError"
    /\ call.steps = SubSeq(StepOrder, 1, StepIndex(step))
    /\ CallLogRows = {}
    /\ quotas = call.chk

\* C12: once the admission check has passed, a call for which no active
\* template matches ends at the template lookup, and a call whose resolved
\* template has a placeholder without a value ends at the rendering, each
\* with AIServiceError and with no provider call, no AIRequestLog row and no
\* consumption (the quota table is as the admission check left it); and the
\* steps made are always taken in the order quota check, template lookup,
\* rendering, provider call.
C12_FailFastBeforeProvider ==
    /\ \A i, j \in DOMAIN call.steps :
          i < j => StepIndex(call.steps[i]) < StepIndex(call.steps[j])
    /\ "provider" \in CallSteps =>
          SubSeq(call.steps, 1, 4) = SubSeq(StepOrder, 1, 4)
    /\ (call.pc \notin {"idle", "check_quota", "template"}
         /\ call.exc # "AIQuotaExceededError"
         /\ NoTemplateMatches) => FailedFastAt("template")
    /\ (call.pc \notin {"idle", "check_quota", "template", "render"}
         /\ PlaceholderMissing) => FailedFastAt("render")

\* a keyword extraction without its count ended at the rendering, in a call
\* whose admission check had passed on a used quota
C12_Witness ==
    /\ FailedFastAt("render")
    /\ call.rtype = "extract_keywords"
    /\ "count" \notin call.kw
    /\ call.pre["monthly"].used_requests > 0

\* the templates that qualify for the call in progress: active, of its
\* request type, and of its template name when it gives one
Qualifying ==
    {i \in DOMAIN templates :
        /\ templates[i].is_active = TRUE
        /\ templates[i].template_type = call.rtype
        /\ (call.tname # "" => templates[i].name = call.tname)}

\* C23: once the template lookup of a call is done, the template it resolved
\* is active, of the request type and (when a name is given) of that name,
\* and it is the one of lowest id among the templates that qualify; when
\* none qualifies the call has ended at the lookup with AIServiceError.
C23_TemplateResolution ==
    "template" \in CallSteps =>
        IF Qualifying = {}
        THEN /\ call.pc = "raised"
             /\ call.exc = "AIServiceError"
             /\ call.steps = <<"check_quota", "template">>
        ELSE /\ call.template \in Qualifying
             /\ \A j \in Qualifying : call.template <= j
             /\ call.steps[Len(call.steps)] = "template" => call.pc = "render"

\* a call without a name went on with the first of two active templates of
\* its type, passing over the inactive one of lower id
C23_Witness ==
    /\ "template" \in CallSteps
    /\ call.tname = ""
    /\ Cardinality(Qualifying) = 2
    /\ \E i \in DOMAIN templates :
          /\ i < call.template
          /\ ~templates[i].is_active
          /\ templates[i].template_type = call.rtype
    /\ call.pc = "returned"

\* C27: process_text reads and changes the active monthly row only: no step
\* changes the daily or the weekly row (used_requests, used_tokens,
\* reset_date or any other column), although both are exhausted and the
\* reset_date of the weekly one has passed; and a call is refused only when
\* the monthly row, as the admission check left it, is at its request limit
\* or short of the estimated tokens.
C27_OnlyMonthlyRow ==
    /\ [][\A id \in {"daily", "weekly"} : quotas'[id] = quotas[id]]_vars
    /\ [](call.exc = "AIQuotaExceededError" =>
            LET r == call.chk["monthly"] IN
            /\ r.is_active
            /\ \/ r.used_requests >= r.max_requests
               \/ r.used_tokens + call.est > r.max_tokens)

\* a call returned, and the monthly row was consumed, while the daily and
\* the weekly row stood at their limits
C27_Witness ==
    /\ call.pc = "returned"
    /\ quotas["monthly"].used_requests = call.chk["monthly"].used_requests + 1
    /\ \A id \in {"daily", "weekly"} :
          /\ quotas[id].is_active
          /\ quotas[id].used_requests >= quotas[id].max_requests
          /\ quotas[id].used_tokens >= quotas[id].max_tokens
    /\ now >= quotas["weekly"].reset_date

\* C28: with the calls made one after the other, used_requests of the
\* monthly row never exceeds max_requests: a step raises it by 1 at most,
\* and only the consumption of a call whose admission check found the row
\* below its request limit raises it.
C28_RequestsWithinLimit ==
    /\ [](quotas["monthly"].used_requests <= quotas["monthly"].max_requests)
    /\ [][quotas'["monthly"].used_requests > quotas["monthly"].used_requests =>
             /\ quotas'["monthly"].used_requests = quotas["monthly"].used_requests + 1
             /\ call.pc = "update_quota"
             /\ call.chk["monthly"].used_requests < call.chk["monthly"].max_requests
             /\ quotas["monthly"].used_requests = call.chk["monthly"].used_requests]_vars

\* the first call took the last request of the allowance of 2 and the second
\* call was refused at the limit
C28_Witness ==
    /\ call.id = 2
    /\ call.pc = "raised"
    /\ call.exc = "AIQuotaExceededError"
    /\ quotas["monthly"].max_requests = 2
    /\ quotas["monthly"].used_requests = 2
    /\ \E i \in DOMAIN logs : logs[i].call = 1 /\ logs[i].tokens_total > 0

ConcInit ==
    /\ now = 1
    /\ ticks = 0
    /\ \E m \in OrchQuotaRows("monthly"), d \in OrchQuotaRows("daily") :
          /\ m.used_requests = 0 /\ m.used_tokens = 0 /\ m.is_active
          /\ d.max_requests = 1 /\ d.max_tokens = 1
          /\ d.used_requests = 0 /\ d.used_tokens = 0
          /\ d.reset_date = HoursPerDay /\ d.is_active
          /\ quotas = [id \in QuotaIds |-> IF id = "monthly" THEN m ELSE d]
    /\ templates = <<>>
    /\ logs = <<>>
    /\ call = IdleCall
    /\ calls = 0
    /\ lastOp = NoOp
    /\ ops = 0
    /\ workers = [w \in Workers |-> [pc |-> "start", inst |-> NoInstance]]
    /\ notes = <<>>
    /\ tasks = <<>>
    /\ job = IdleJob
    /\ queue = <<>>
    /\ trigger = NoTrigger
    /\ events = 0
    /\ metrics = {}
    /\ insights = <<>>
    /\ view = IdleView
    /\ cache = <<>>
    /\ mw = <<>>
    /\ rules = <<>>
    /\ parse = NoParse

\* update_quota: quota = AIUsageQuota.objects.filter(...).first()
WLoad(w) ==
    /\ workers[w].pc = "start"
    /\ workers' = [workers EXCEPT ![w] =
          IF monthly_quota(quotas) = {}
          THEN [pc |-> "done", inst |-> NoInstance]
          ELSE LET id == CHOOSE i \in monthly_quota(quotas) : TRUE
               IN [pc |-> "loaded", inst |-> [id |-> id, row |-> quotas[id]]]]
    /\ UNCHANGED <<quotas, offConc>>

\* update_quota: quota.consume_usage(tokens_used), with tokens_used = 1
WConsume(w) ==
    /\ workers[w].pc = "loaded"
    /\ quotas' = consume_usage(quotas, workers[w].inst.id, workers[w].inst.row, 1)
    /\ workers' = [workers EXCEPT ![w].pc = "done"]
    /\ UNCHANGED offConc

ConcNext == \E w \in Workers : WLoad(w) \/ WConsume(w)

SpecConc == ConcInit /\ [][ConcNext]_vars

\* C3 (as claimed): when NumWorkers concurrent consume calls with
\* tokens_used = 1 against a zeroed quota have all finished, used_requests
\* and used_tokens both equal NumWorkers, whatever the interleaving.
C3_NoLostUpdate ==
    (\A w \in Workers : workers[w].pc = "done") =>
        /\ quotas["monthly"].used_requests = NumWorkers
        /\ quotas["monthly"].used_tokens = NumWorkers

\* ------------------------------------------------------- reset race spec
\* reset_monthly_quotas (tasks.py) loads the active monthly rows and calls
\* reset_if_needed on each, while a worker that finishes a process_text call
\* runs update_quota on the same row; each works on the instance it loaded.

\* the worker of reset_monthly_quotas and the worker of update_quota
Resetter == 1
Consumer == 2

RaceInit ==
    /\ now = 1
    /\ ticks = 0
    /\ \E m \in OrchQuotaRows("monthly"), d \in OrchQuotaRows("daily") :
          /\ m.is_active
          /\ d.max_requests = 1 /\ d.max_tokens = 1
          /\ d.used_requests = 0 /\ d.used_tokens = 0
          /\ d.reset_date = HoursPerDay /\ d.is_active
          /\ quotas = [id \in QuotaIds |-> IF id = "monthly" THEN m ELSE d]
    /\ templates = <<>>
    /\ logs = <<>>
    /\ call = IdleCall
    /\ calls = 0
    /\ lastOp = NoOp
    /\ ops = 0
    /\ workers = [w \in Workers |->
                    IF w \in {Resetter, Consumer}
                    THEN [pc |-> "start", inst |-> NoInstance]
                    ELSE [pc |-> "idle", inst |-> NoInstance]]
    /\ notes = <<>>
    /\ tasks = <<>>
    /\ job = IdleJob
    /\ queue = <<>>
    /\ trigger = NoTrigger
    /\ events = 0
    /\ metrics = {}
    /\ insights = <<>>
    /\ view = IdleView
    /\ cache = <<>>
    /\ mw = <<>>
    /\ rules = <<>>
    /\ parse = NoParse

\* quotas = AIUsageQuota.objects.filter(quota_type='monthly',
\* is_active=True); for quota in quotas: the instance of the row
RLoad ==
    /\ workers[Resetter].pc = "start"
    /\ workers' = [workers EXCEPT ![Resetter] =
          IF monthly_quota(quotas) = {}
          THEN [pc |-> "done", inst |-> NoInstance, reset |-> FALSE, at |-> now]
          ELSE LET id == CHOOSE i \in monthly_quota(quotas) : TRUE
               IN [pc |-> "loaded", inst |-> [id |-> id, row |-> quotas[id]]]]
    /\ UNCHANGED <<quotas, offConc>>

\* quota.reset_if_needed() on the instance: the in-memory reset and
\* self.save() when reset_date has passed, nothing otherwise
RReset ==
    /\ workers[Resetter].pc = "loaded"
    /\ LET inst == workers[Resetter].inst IN
       /\ quotas' = reset_if_needed(quotas, inst.id, inst.row, now)
       /\ workers' = [workers EXCEPT ![Resetter] =
             [pc |-> "done",
              inst |-> [id |-> inst.id, row |-> reset_if_needed_inst(inst.row, now)],
              reset |-> reset_needed(inst.row, now), at |-> now]]
    /\ UNCHANGED offConc

\* time passes while the two workers run
RaceTick ==
    /\ Tick
    /\ UNCHANGED <<quotas, ledgerVars, orchVars, concVars, jobVars, insVars, webVars>>

RaceNext ==
    \/ RaceTick
    \/ RLoad
    \/ RReset
    \/ WLoad(Consumer)
    \/ WConsume(Consumer)

SpecRace == RaceInit /\ [][RaceNext]_vars

\* C29 (as claimed): when a reset_if_needed that found reset_date passed and
\* a consume_usage of 1 token on the same row have both finished, reset_date
\* is the rolled-forward value (30 days after the reset) and the counters
\* are (0, 0) or (1, 1).
C29_ResetNotLost ==
    (/\ workers[Resetter].pc = "done"
     /\ workers[Consumer].pc = "done"
     /\ workers[Resetter].reset) =>
        /\ quotas["monthly"].reset_date = workers[Resetter].at + 30 * HoursPerDay
        /\ <<quotas["monthly"].used_requests, quotas["monthly"].used_tokens>>
              \in {<<0, 0>>, <<1, 1>>}

\* ------------------------------------------------------- processing job spec
\* process_note_with_ai and process_task_with_ai (tasks.py): the entity is
\* loaded into an instance, every AI operation calls process_text through its
\* wrapper and assigns the parsed result to the instance, and
\* mark_ai_processed saves.

\* the response parsers of services.py.  A text is the sequence of its
\* characters, each a string of length one.

UpperCase == <<"A", "B", "C", "D", "E", "F", "G", "H", "I", "J", "K", "L", "M",
               "N", "O", "P", "Q", "R", "S", "T", "U", "V", "W", "X", "Y", "Z">>
LowerCase == <<"a", "b", "c", "d", "e", "f", "g", "h", "i", "j", "k", "l", "m",
               "n", "o", "p", "q", "r", "s", "t", "u", "v", "w", "x", "y", "z">>
Digits == {"0", "1", "2", "3", "4", "5", "6", "7", "8", "9"}
\* the characters str.strip() removes, and those JSON allows around a value
Whitespace == {" ", "\t", "\n", "\r", "\f"}
JsonWhitespace == {" ", "\t", "\n", "\r"}

MinOf(S) == CHOOSE i \in S : \A j \in S : i <= j
MaxOf(S) == CHOOSE i \in S : \A j \in S : i >= j

\* str.lower()
lower(text) ==
    [i \in DOMAIN text |->
        IF \E k \in DOMAIN UpperCase : UpperCase[k] = text[i]
        THEN LowerCase[CHOOSE k \in DOMAIN UpperCase : UpperCase[k] = text[i]]
        ELSE text[i]]

\* the text without the characters of ws at its two ends
strip_of(text, ws) ==
    LET keep == {i \in DOMAIN text : text[i] \notin ws}
    IN IF keep = {} THEN <<>> ELSE SubSeq(text, MinOf(keep), MaxOf(keep))

\* str.strip()
strip(text) == strip_of(text, Whitespace)

\* str.lower().strip()
lower_strip(text) == strip(lower(text))

\* word in text
contains(text, word) ==
    \E i \in 1..(Len(text) - Len(word) + 1) :
        SubSeq(text, i, i + Len(word) - 1) = word

\* str.split(','): the pieces between the commas, at least one
RECURSIVE split(_)
split(text) ==
    LET c == {i \in DOMAIN text : text[i] = ","}
    IN IF c = {} THEN <<text>>
       ELSE <<SubSeq(text, 1, MinOf(c) - 1)>>
               \o split(SubSeq(text, MinOf(c) + 1, Len(text)))

\* [k.strip() for k in response_text.split(',')]
split_commas(text) == LET p == split(text) IN [i \in DOMAIN p |-> strip(p[i])]

\* keywords[:count], count >= 0
take(list, count) == SubSeq(list, 1, IF Len(list) < count THEN Len(list) ELSE count)

\* the parts of the text between the commas that are outside every string
\* and every inner array: the element texts of a JSON array body
RECURSIVE elements(_, _, _, _, _)
elements(body, i, in_string, depth, cur) ==
    IF i > Len(body) THEN <<cur>>
    ELSE LET c == body[i] IN
         IF c = "," /\ ~in_string /\ depth = 0
         THEN <<cur>> \o elements(body, i + 1, FALSE, 0, <<>>)
         ELSE elements(body, i + 1,
                       IF c = "\"" THEN ~in_string ELSE in_string,
                       IF in_string THEN depth
                       ELSE IF c = "[" THEN depth + 1
                       ELSE IF c = "]" THEN depth - 1 ELSE depth,
                       Append(cur, c))

\* json.loads(text) for texts of arrays, strings without escapes, unsigned
\* integers and the literals true, false, null: the decoded value and its
\* kind, or kind "error" for json.JSONDecodeError
RECURSIVE json_loads(_)
json_loads(text) ==
    LET s == strip_of(text, JsonWhitespace)
        n == Len(s)
        error == [kind |-> "error", value |-> <<>>]
    IN IF n = 0 THEN error
       ELSE IF s \in {<<"t", "r", "u", "e">>, <<"f", "a", "l", "s", "e">>,
                      <<"n", "u", "l", "l">>}
       THEN [kind |-> "literal", value |-> s]
       ELSE IF \A i \in 1..n : s[i] \in Digits
       THEN IF n > 1 /\ s[1] = "0" THEN error
            ELSE [kind |-> "number", value |-> s]
       ELSE IF s[1] = "\""
       THEN IF /\ n >= 2
               /\ s[n] = "\""
               /\ \A i \in 2..(n - 1) : s[i] \notin {"\"", "\\", "\n", "\t", "\r"}
            THEN [kind |-> "string", value |-> SubSeq(s, 2, n - 1)]
            ELSE error
       ELSE IF s[1] = "["
       THEN IF n < 2 \/ s[n] # "]" THEN error
            ELSE LET body == SubSeq(s, 2, n - 1) IN
                 IF strip_of(body, JsonWhitespace) = <<>>
                 THEN [kind |-> "list", value |-> <<>>]
                 ELSE LET e == elements(body, 1, FALSE, 0, <<>>)
                          d == [i \in DOMAIN e |-> json_loads(e[i])]
                      IN IF \E i \in DOMAIN d : d[i].kind = "error" THEN error
                         ELSE [kind |-> "list",
                               value |-> [i \in DOMAIN d |->
                                            IF d[i].kind = "string" THEN d[i].value
                                            ELSE d[i]]]
       ELSE error

\* extract_keywords, after process_text: a JSON list gives its first count
\* elements, a JSONDecodeError the first count trimmed pieces between the
\* commas, and a JSON value that is no list falls through to return []
keywords_of(text, count) ==
    LET d == json_loads(text) IN
    IF d.kind = "error" THEN take(split_commas(text), count)
    ELSE IF d.kind = "list" THEN take(d.value, count)
    ELSE <<>>

\* identify_topics, after process_text: the same without the truncation
topics_of(text) ==
    LET d == json_loads(text) IN
    IF d.kind = "error" THEN split_commas(text)
    ELSE IF d.kind = "list" THEN d.value
    ELSE <<>>

\* the words analyze_task_priority looks for
Word_urgent == <<"u", "r", "g", "e", "n", "t">>
Word_critical == <<"c", "r", "i", "t", "i", "c", "a", "l">>
Word_high == <<"h", "i", "g", "h">>
Word_low == <<"l", "o", "w">>

\* faulty variant: 'low' looked for before 'high'
priority_of_low_first(text) ==
    LET p == lower_strip(text) IN
    IF contains(p, Word_urgent) \/ contains(p, Word_critical) THEN "urgent"
    ELSE IF contains(p, Word_low) THEN "low"
    ELSE IF contains(p, Word_high) THEN "high"
    ELSE "medium"

\* analyze_task_priority: the normalisation of the response text
priority_of(text) ==
    LET p == lower_strip(text) IN
    IF contains(p, Word_urgent) \/ contains(p, Word_critical) THEN "urgent"
    ELSE IF contains(p, Word_high) THEN "high"
    ELSE IF contains(p, Word_low) THEN "low"
    ELSE "medium"

NoteOps == <<"summary", "keywords", "sentiment", "topics">>
TaskOps == <<"priority", "time_estimate", "subtasks">>
JobOps(kind) == IF kind = "note" THEN NoteOps ELSE TaskOps

\* the process_text call each wrapper makes: request type, template name and
\* the names of the keyword arguments that reach format_prompt
OpInput(op) ==
    CASE op = "summary" ->
            [rtype |-> "summarize", tname |-> "summarize_medium",
             kw |-> {"content_type", "content_id"}]
      [] op = "keywords" ->
            [rtype |-> "extract_keywords", tname |-> "",
             kw |-> {"count", "content_type", "content_id"}]
      [] op = "sentiment" ->
            [rtype |-> "analyze_sentiment", tname |-> "",
             kw |-> {"content_type", "content_id"}]
      [] op = "topics" ->
            [rtype |-> "identify_topics", tname |-> "",
             kw |-> {"content_type", "content_id"}]
      [] op = "priority" ->
            [rtype |-> "priority_analysis", tname |-> "",
             kw |-> {"content_type", "content_id"}]
      [] op = "time_estimate" ->
            [rtype |-> "time_estimation", tname |-> "",
             kw |-> {"content_type", "content_id"}]
      [] op = "subtasks" ->
            [rtype |-> "task_breakdown", tname |-> "",
             kw |-> {"content_type", "content_id"}]

\* the value each wrapper returns for a response text
OpValue(op, text) ==
    CASE op = "summary" -> text
      [] op = "keywords" -> keywords_of(text, KeywordCount)
      [] op = "sentiment" -> lower_strip(text)
      [] op = "topics" -> topics_of(text)
      [] op = "priority" -> priority_of(text)
      [] op = "time_estimate" -> DefaultMinutes
      [] op = "subtasks" -> <<>>

\* the attribute of the instance the job assigns the value to
OpField(op) ==
    CASE op = "summary" -> "ai_summary"
      [] op = "keywords" -> "ai_keywords"
      [] op = "sentiment" -> "ai_sentiment"
      [] op = "topics" -> "ai_topics"
      [] op = "priority" -> "ai_priority_suggestion"
      [] op = "time_estimate" -> "ai_time_estimate"
      [] op = "subtasks" -> "ai_subtasks"

\* the number of words of the text an operation sends
OpWords(op, inst) ==
    CASE op \in {"summary", "keywords", "sentiment", "topics"} -> inst.words
      [] op = "priority" -> inst.title_words + 2 + inst.description_words
      [] OTHER -> inst.title_words + inst.description_words

\* faulty variant: every save counts as a modification
needs_ai_processing_always(inst) == TRUE

\* Note.needs_ai_processing / Task.needs_ai_processing
needs_ai_processing(inst) ==
    IF inst.last_ai_processed = NoTime THEN TRUE
    ELSE inst.updated_at > inst.last_ai_processed

\* mark_ai_processed: self.save(update_fields=['last_ai_processed'])
mark_fields(inst) == {"last_ai_processed"}

\* Note.mark_ai_processed / Task.mark_ai_processed on the instance of row id
mark_ai_processed(db, id, inst, t) ==
    save_update_fields(db, id, [inst EXCEPT !.last_ai_processed = t],
                       mark_fields(inst))

JobTemplateRows(a1) ==
    <<[name |-> "summarize_medium", template_type |-> "summarize",
       placeholders |-> {"content"}, is_active |-> a1],
      [name |-> "keywords", template_type |-> "extract_keywords",
       placeholders |-> {"content", "count"}, is_active |-> TRUE],
      [name |-> "sentiment", template_type |-> "analyze_sentiment",
       placeholders |-> {"content"}, is_active |-> TRUE],
      [name |-> "topics", template_type |-> "identify_topics",
       placeholders |-> {"content"}, is_active |-> TRUE],
      [name |-> "priority", template_type |-> "priority_analysis",
       placeholders |-> {"content"}, is_active |-> TRUE],
      [name |-> "time", template_type |-> "time_estimation",
       placeholders |-> {"content"}, is_active |-> TRUE],
      [name |-> "breakdown", template_type |-> "task_breakdown",
       placeholders |-> {"content"}, is_active |-> TRUE]>>

NoteRow(words) ==
    [user |-> 1, words |-> words, ai_summary |-> <<>>, ai_keywords |-> <<>>,
     ai_sentiment |-> <<>>, ai_topics |-> <<>>,
     updated_at |-> 0, last_ai_processed |-> NoTime]

TaskRow ==
    [user |-> 1, title_words |-> 1, description_words |-> 1,
     ai_priority_suggestion |-> "", ai_time_estimate |-> NoTime,
     ai_subtasks |-> <<>>, updated_at |-> 0, last_ai_processed |-> NoTime]

\* @shared_task(bind=True, max_retries=3, default_retry_delay=60): the
\* retries Celery allows a task, and the countdown of a retry in seconds
MaxRetries == 3
RetryDelay == 60

\* the message of process_note_with_ai / process_task_with_ai for an entity
Message(kind, id, retries, countdown) ==
    [kind |-> kind, id |-> id, retries |-> retries, countdown |-> countdown]

\* task.delay(id): a message of a first run, without countdown
delay(q, kind, id) == Append(q, Message(kind, id, 0, 0))

\* faulty variant: max_retries=None
retry_allowed_always(retries) == TRUE

\* Task.retry sends a new message while request.retries < max_retries
retry_allowed(retries) == retries < MaxRetries

\* raise self.retry(exc=e) in the run j: the message of the retry is sent
\* and the run ends as a retry, or (retries used up) exc is raised and the
\* task has failed
retry(j, q) ==
    IF retry_allowed(j.retries)
    THEN [job |-> [j EXCEPT !.pc = "done", !.status = "retry"],
          queue |-> Append(q, Message(j.kind, j.id, j.retries + 1, RetryDelay))]
    ELSE [job |-> [j EXCEPT !.pc = "done", !.status = "failed"], queue |-> q]

\* faulty variant: the threshold off by one
too_short_strict(words) == words < MinWords - 1

\* if len(note.content.split()) < 10
too_short(words) == words < MinWords

\* faulty variant: the first failed operation ends the operations
after_op_abort(kind, op, ok) ==
    IF op = Len(JobOps(kind)) \/ ~ok THEN "mark" ELSE "ops"

\* the try blocks of the operations follow one another: after the last one
\* comes mark_ai_processed, whatever the operation did
after_op(kind, op, ok) == IF op = Len(JobOps(kind)) THEN "mark" ELSE "ops"

\* what a trigger saw and did
TriggerRecord(name, kind, id, user, inst, before, after) ==
    [name |-> name, kind |-> kind, id |-> id, user |-> user, owner |-> inst.user,
     updated_at |-> inst.updated_at, last_ai_processed |-> inst.last_ai_processed,
     before |-> before, after |-> after]

\* the post_save trigger of a saved instance
post_save(q, kind, id, inst) ==
    IF needs_ai_processing(inst) THEN delay(q, kind, id) ELSE q

\* the row of the table is deleted
delete_row(db, id) == [i \in DOMAIN db \ {id} |-> db[i]]

\* request.user of a request
Users == {1, 2}

Table(kind) == IF kind = "note" THEN notes ELSE tasks

JobQuotaRows(mr) ==
    [id \in QuotaIds |->
       [quota_type |-> id, max_requests |-> mr,
        max_tokens |-> estimate_tokens(MinWords) + MaxTokens,
        used_requests |-> 0, used_tokens |-> 0,
        reset_date |-> HoursPerDay, is_active |-> TRUE]]

JobInit ==
    /\ now = 1
    /\ ticks = 0
    /\ \E mr \in {MaxRequests, MaxRequests + 2} : quotas = JobQuotaRows(mr)
    /\ \E a1 \in BOOLEAN : templates = JobTemplateRows(a1)
    /\ logs = <<>>
    /\ call = IdleCall
    /\ calls = 0
    /\ lastOp = NoOp
    /\ ops = 0
    /\ workers = IdleWorkers
    /\ \E w \in {MinWords - 1, MinWords} : notes = <<NoteRow(w)>>
    /\ tasks = <<TaskRow>>
    /\ job = IdleJob
    /\ \E k \in {"note", "task"}, id \in 1..2 : queue = delay(<<>>, k, id)
    /\ trigger = NoTrigger
    /\ events = 0
    /\ metrics = {}
    /\ insights = <<>>
    /\ view = IdleView
    /\ cache = <<>>
    /\ mw = <<>>
    /\ rules = <<>>
    /\ parse = NoParse

JTick == call.pc = "idle" /\ Tick /\ UNCHANGED <<quotas, orchVars, offOrch>>

\* the worker takes the next message: process_note_with_ai(note_id) or
\* process_task_with_ai(task_id) begins with request.retries of the message
JobStart ==
    /\ job.pc = "idle"
    /\ queue # <<>>
    /\ job' = [IdleJob EXCEPT
          !.pc = "load", !.kind = Head(queue).kind, !.id = Head(queue).id,
          !.retries = Head(queue).retries,
          !.pre = [logs |-> logs, quotas |-> quotas, notes |-> notes,
                   tasks |-> tasks, calls |-> calls, queue |-> Tail(queue)]]
    /\ queue' = Tail(queue)
    /\ UNCHANGED <<clockVars, quotas, orchVars, ledgerVars, concVars, webVars, insVars,
                   notes, tasks, trigger, events>>

\* Note.objects.get(id=note_id) and the length check; Task.objects.get
JobLoad ==
    /\ job.pc = "load"
    /\ LET db == Table(job.kind) IN
       IF job.id \notin DOMAIN db
       THEN \* DoesNotExist: the note job returns an error, the task job's
            \* except Exception retries
            IF job.kind = "note"
            THEN /\ job' = [job EXCEPT !.pc = "done", !.status = "error",
                                       !.gone = TRUE]
                 /\ UNCHANGED queue
            ELSE /\ job' = retry([job EXCEPT !.gone = TRUE], queue).job
                 /\ queue' = retry(job, queue).queue
       ELSE IF job.kind = "note" /\ too_short(db[job.id].words)
       THEN /\ job' = [job EXCEPT !.pc = "done", !.status = "skipped"]
            /\ UNCHANGED queue
       ELSE /\ job' = [job EXCEPT !.pc = "ops", !.op = 1, !.inst = db[job.id]]
            /\ UNCHANGED queue
    /\ UNCHANGED <<clockVars, quotas, orchVars, ledgerVars, concVars, webVars, insVars,
                   notes, tasks, trigger, events>>

\* the wrapper of the current operation enters process_text
JobOpCall ==
    /\ job.pc = "ops"
    /\ call.pc = "idle"
    /\ LET op == JobOps(job.kind)[job.op]
           in == OpInput(op)
           w == OpWords(op, job.inst)
       IN call' = [IdleCall EXCEPT !.pc = "check_quota", !.id = calls + 1,
                                   !.words = w, !.rtype = in.rtype,
                                   !.tname = in.tname, !.kw = in.kw,
                                   !.est = estimate_tokens(w),
                                   !.pre = quotas, !.chk = quotas]
    /\ calls' = calls + 1
    /\ job' = [job EXCEPT !.pc = "wait"]
    /\ UNCHANGED <<clockVars, quotas, templates, logs, ledgerVars, concVars, webVars,
                   insVars,
                   notes, tasks, queue, trigger, events>>

\* process_text has returned or raised inside the operation's try: the
\* result is assigned to the instance, or except Exception records the error
JobOpReturn ==
    /\ job.pc = "wait"
    /\ call.pc \in {"returned", "raised"}
    /\ LET op == JobOps(job.kind)[job.op]
           ok == call.pc = "returned"
           v == OpValue(op, call.resp.response_text)
       IN job' = [job EXCEPT
             !.inst = IF ok THEN [@ EXCEPT ![OpField(op)] = v] ELSE @,
             !.results = Append(@, [op |-> op, ok |-> ok,
                                    value |-> IF ok THEN v ELSE <<>>,
                                    error |-> call.exc, call |-> call.id]),
             !.op = @ + 1,
             !.pc = after_op(job.kind, job.op, ok)]
    /\ call' = IdleCall
    /\ UNCHANGED <<clockVars, quotas, templates, logs, calls, ledgerVars,
                   concVars, webVars, insVars, notes, tasks, queue, trigger, events>>

\* note.mark_ai_processed() / task.mark_ai_processed(), the post_save
\* trigger of the save, and the 'completed' result; the save of a deleted
\* row (update_fields that affect no rows) raises DatabaseError, which the
\* outer except Exception of either job retries
JobMark ==
    /\ job.pc = "mark"
    /\ IF job.id \notin DOMAIN Table(job.kind)
       THEN /\ job' = retry([job EXCEPT !.gone = TRUE], queue).job
            /\ queue' = retry(job, queue).queue
            /\ UNCHANGED <<notes, tasks, trigger>>
       ELSE LET marked == [job.inst EXCEPT !.last_ai_processed = now] IN
            /\ IF job.kind = "note"
               THEN /\ notes' = mark_ai_processed(notes, job.id, job.inst, now)
                    /\ UNCHANGED tasks
               ELSE /\ tasks' = mark_ai_processed(tasks, job.id, job.inst, now)
                    /\ UNCHANGED notes
            /\ queue' = post_save(queue, job.kind, job.id, marked)
            /\ trigger' = TriggerRecord("post_save", job.kind, job.id, marked.user,
                                        marked, queue, queue')
            /\ job' = [job EXCEPT !.pc = "done", !.status = "completed",
                                  !.inst = marked]
    /\ UNCHANGED <<clockVars, quotas, orchVars, ledgerVars, concVars, webVars, insVars, events>>

\* the run is over: the worker is free for the next message
JobFinish ==
    /\ job.pc = "done"
    /\ job' = IdleJob
    /\ UNCHANGED <<clockVars, quotas, orchVars, ledgerVars, concVars, webVars, insVars,
                   notes, tasks, queue, trigger, events>>

JobNext ==
    \/ JTick
    \/ JobStart
    \/ JobLoad
    \/ JobOpCall
    \/ PTCheckQuota
    \/ PTTemplate
    \/ PTRender
    \/ PTProvider
    \/ PTLog
    \/ PTUpdateQuota
    \/ JobOpReturn
    \/ JobMark
    \/ JobFinish

SpecJob == JobInit /\ [][JobNext]_vars

\* the row of the entity the job ran on
JobRow == IF job.kind = "note" THEN notes[job.id] ELSE tasks[job.id]

\* C4 (as claimed): after a job finishes with status 'completed', the stored
\* row of the entity holds the result of every operation that succeeded and
\* last_ai_processed is stamped.
C4_CompletedJobPersistsResults ==
    (job.pc = "done" /\ job.status = "completed") =>
        /\ \A i \in DOMAIN job.results :
              job.results[i].ok =>
                 JobRow[OpField(job.results[i].op)] = job.results[i].value
        /\ JobRow.last_ai_processed # NoTime

\* ------------------------------------------------------------ job queue spec
\* The life of the messages: the post_save triggers and the manual trigger
\* endpoints send them, one worker runs them, Task.retry sends them again;
\* meanwhile the owner saves and deletes the entities.

\* What the operations of a run return has no part in the life of its
\* message (the processing job spec covers it): here the template table is
\* empty, so that every process_text call ends at the template lookup.
QueueTemplateRows == <<>>

QueueInit ==
    /\ now = 1
    /\ ticks = 0
    /\ quotas = JobQuotaRows(MaxRequests)
    /\ templates = QueueTemplateRows
    /\ logs = <<>>
    /\ call = IdleCall
    /\ calls = 0
    /\ lastOp = NoOp
    /\ ops = 0
    /\ workers = IdleWorkers
    /\ \E l \in {NoTime, 0} :
          /\ notes = <<[NoteRow(MinWords) EXCEPT !.last_ai_processed = l]>>
          /\ tasks = <<[TaskRow EXCEPT !.last_ai_processed = l]>>
    /\ job = IdleJob
    /\ queue = <<>>
    /\ trigger = NoTrigger
    /\ events = 0
    /\ metrics = {}
    /\ insights = <<>>
    /\ view = IdleView
    /\ cache = <<>>
    /\ mw = <<>>
    /\ rules = <<>>
    /\ parse = NoParse

\* PUT / PATCH of NoteDetailView or TaskDetailView by the owner, leaving the
\* content: serializer.save() writes the row with updated_at = now
\* (auto_now), and the post_save trigger runs on the saved instance
SaveEntity(kind, id) ==
    /\ events < MaxEvents
    /\ id \in DOMAIN Table(kind)
    /\ LET inst == [Table(kind)[id] EXCEPT !.updated_at = now] IN
       /\ IF kind = "note"
          THEN notes' = save(notes, id, inst) /\ UNCHANGED tasks
          ELSE tasks' = save(tasks, id, inst) /\ UNCHANGED notes
       /\ queue' = post_save(queue, kind, id, inst)
       /\ trigger' = TriggerRecord("post_save", kind, id, inst.user, inst,
                                   queue, queue')
    /\ events' = events + 1
    /\ UNCHANGED <<clockVars, quotas, orchVars, ledgerVars, concVars, webVars, insVars, job>>

\* trigger_ai_analysis / trigger_ai_task_analysis: objects.get(id, user),
\* then delay(id), or 404
ManualTrigger(kind, id, user) ==
    /\ events < MaxEvents
    /\ LET found == id \in DOMAIN Table(kind) /\ Table(kind)[id].user = user
           inst == IF id \in DOMAIN Table(kind) THEN Table(kind)[id]
                   ELSE [user |-> 0, updated_at |-> NoTime,
                         last_ai_processed |-> NoTime]
       IN /\ queue' = IF found THEN delay(queue, kind, id) ELSE queue
          /\ trigger' = TriggerRecord("manual", kind, id, user, inst,
                                      queue, queue')
    /\ events' = events + 1
    /\ UNCHANGED <<clockVars, quotas, orchVars, ledgerVars, concVars, webVars, insVars, job,
                   notes, tasks>>

\* DELETE of NoteDetailView or TaskDetailView by the owner
DeleteEntity(kind, id) ==
    /\ events < MaxEvents
    /\ id \in DOMAIN Table(kind)
    /\ IF kind = "note"
       THEN notes' = delete_row(notes, id) /\ UNCHANGED tasks
       ELSE tasks' = delete_row(tasks, id) /\ UNCHANGED notes
    /\ events' = events + 1
    /\ UNCHANGED <<clockVars, quotas, orchVars, ledgerVars, concVars, webVars, insVars, job,
                   queue, trigger>>

\* an hour passes between two requests or steps of the worker
QueueTick ==
    /\ call.pc = "idle"
    /\ ticks < MaxTicks
    /\ now' = now + 1
    /\ ticks' = ticks + 1
    /\ UNCHANGED <<quotas, orchVars, offOrch>>

QueueNext ==
    \/ QueueTick
    \/ \E kind \in {"note", "task"} : SaveEntity(kind, 1)
    \/ \E kind \in {"note", "task"}, user \in Users : ManualTrigger(kind, 1, user)
    \/ \E kind \in {"note", "task"} : DeleteEntity(kind, 1)
    \/ JobStart
    \/ JobLoad
    \/ JobOpCall
    \/ PTCheckQuota
    \/ PTTemplate
    \/ JobOpReturn
    \/ JobMark
    \/ JobFinish

SpecQueue == QueueInit /\ [][QueueNext]_vars

\* the steps of the worker; a running worker goes on taking its next step
WorkerStep ==
    \/ JobStart
    \/ JobLoad
    \/ JobOpCall
    \/ PTCheckQuota
    \/ PTTemplate
    \/ JobOpReturn
    \/ JobMark
    \/ JobFinish

SpecQueueFair == SpecQueue /\ WF_vars(WorkerStep)

\* the messages waiting for an entity, and whether a run on it is going on
Waiting(kind, id) == {i \in DOMAIN queue : queue[i].kind = kind /\ queue[i].id = id}
Running(kind, id) == job.pc \notin {"idle", "done"} /\ job.kind = kind /\ job.id = id

RunsBounded ==
    /\ job.pc # "idle" => job.retries + 1 <= 4
    /\ \A i \in DOMAIN queue :
          /\ queue[i].retries + 1 <= 4
          /\ queue[i].retries > 0 => queue[i].countdown = 60
    /\ job.pc = "done" =>
          /\ job.status \in {"completed", "skipped", "error", "retry", "failed"}
          /\ job.retries + 1 = 4 => job.status # "retry"
          /\ (job.status = "failed" => job.retries + 1 = 4)
\* no message is waiting and none is being run
Quiet == queue = <<>> /\ job.pc = "idle"
C15_MissingEntityNotRetried ==
    (job.pc = "done" /\ job.gone) =>
        /\ job.status = "error"
        /\ \A i \in DOMAIN queue :
              queue[i].kind = job.kind /\ queue[i].id = job.id => queue[i].retries = 0

\* C18: the post_save trigger sends a message for the saved instance exactly
\* when its last_ai_processed is unset or its updated_at is later, and
\* otherwise sends nothing; the manual trigger endpoint sends one for an
\* existing entity of the requesting user whatever those two fields are, and
\* sends nothing for a missing entity or another user's.
C18_TriggerPredicate ==
    LET msg == [kind |-> trigger.kind, id |-> trigger.id, retries |-> 0,
                countdown |-> 0]
        sent == trigger.after = Append(trigger.before, msg)
        nothing == trigger.after = trigger.before
    IN /\ trigger.name = "post_save" =>
             IF \/ trigger.last_ai_processed = NoTime
                \/ trigger.updated_at > trigger.last_ai_processed
             THEN sent ELSE nothing
       /\ trigger.name = "manual" =>
             IF trigger.owner = trigger.user THEN sent ELSE nothing

\* the manual trigger ran on an entity that was processed and not modified
\* since
C18_Witness ==
    /\ trigger.name = "manual"
    /\ trigger.owner = trigger.user
    /\ trigger.last_ai_processed # NoTime
    /\ trigger.updated_at <= trigger.last_ai_processed
    /\ Len(trigger.after) = Len(trigger.before) + 1

\* C19 (as claimed): for each entity at most one message is waiting or being
\* run.
C19_OneJobPerEntity ==
    \A kind \in {"note", "task"} :
        Cardinality(Waiting(kind, 1)) + (IF Running(kind, 1) THEN 1 ELSE 0) <= 1

\* C26: the save of mark_ai_processed sends no message: a run that ends as
\* completed leaves the queue as it was; a message is sent only by a user's
\* request (a save or a manual trigger) or as the retry of a run, never by a
\* step of a job that completes; and with a worker that keeps running, once
\* the user's requests have stopped the queue empties and stays empty.
C26_MarkSendsNothing ==
    /\ [][(job.pc = "mark" /\ job'.status = "completed") => queue' = queue]_vars
    /\ [][Len(queue') > Len(queue) =>
             \/ events' = events + 1
             \/ job'.status = "retry" /\ job.status # "retry"]_vars
    /\ <>[](queue = <<>> /\ job.pc = "idle")

\* a completed run on an entity that had never been processed and that its
\* owner saved in the hour of the run: its own save found nothing to send
C26_Witness ==
    /\ job.pc = "done"
    /\ job.status = "completed"
    /\ job.kind = "note"
    /\ 1 \in DOMAIN job.pre.notes
    /\ job.pre.notes[1].last_ai_processed = NoTime
    /\ job.inst.updated_at = job.inst.last_ai_processed
    /\ 1 \in DOMAIN notes
    /\ notes[1].last_ai_processed = now
    /\ queue = <<>>

\* the first operation of the run that failed, 0 when none has
FirstFailure ==
    LET f == {i \in DOMAIN job.results : ~job.results[i].ok}
    IN IF f = {} THEN 0 ELSE CHOOSE i \in f : \A j \in f : i <= j

\* C13 (as claimed): a run in which an orchestrator call raised
\* AIQuotaExceededError ends as skipped / quota_exceeded and sends no retry;
\* a run in which an orchestrator call raised another AIServiceError ends as
\* a retry.
C13_QuotaTerminalOthersRetry ==
    (job.pc = "done" /\ FirstFailure # 0) =>
        IF job.results[FirstFailure].error = "AIQuotaExceededError"
        THEN job.status \in {"skipped", "quota_exceeded"} /\ queue = job.pre.queue
        ELSE job.status = "retry"

\* C16: in a run that passed the load and length checks the operations are
\* attempted in their order, each by exactly one process_text call, whether
\* or not earlier ones failed; the result bag has one entry per operation
\* made, a success exactly for the calls that went through (they alone have
\* a log row), and mark_ai_processed is reached only with all of them made.
C16_EveryOperationOnce ==
    job.op > 0 =>
        /\ Len(job.results) <= Len(JobOps(job.kind))
        /\ \A i \in DOMAIN job.results :
              /\ job.results[i].op = JobOps(job.kind)[i]
              /\ job.results[i].call = job.pre.calls + i
              /\ job.results[i].ok <=>
                    \E j \in DOMAIN logs : logs[j].call = job.results[i].call
        /\ calls = job.pre.calls + Len(job.results) + (IF job.pc = "wait" THEN 1 ELSE 0)
        /\ job.pc \in {"mark", "done"} => Len(job.results) = Len(JobOps(job.kind))

\* a completed note run whose first operation failed and whose last one
\* succeeded
C16_Witness ==
    /\ job.pc = "done"
    /\ job.kind = "note"
    /\ job.status = "completed"
    /\ ~job.results[1].ok
    /\ job.results[4].ok

InsightDays == 30
\* if recent_metrics.count() >= 7
MinMetricDays == 7
\* len(prompt.split()) of the prompt the job builds
PromptWords == 36
\* confidence_score=0.8, in tenths
ConfidenceTenths == 8

\* datetime.date() of a time in hours
date_of(t) == t \div HoursPerDay

\* ProductivityMetrics.objects.filter(user=user,
\* date__gte=thirty_days_ago.date())
recent_metrics(rows, user, thirty_days_ago) ==
    {m \in rows : m.user = user /\ m.date >= date_of(thirty_days_ago)}

\* faulty variant: the threshold compared with >
enough_metrics_gt(n) == n > MinMetricDays

\* if recent_metrics.count() >= 7
enough_metrics(n) == n >= MinMetricDays

\* the rows of auth users: User.objects.get(id=user_id) finds these
ExistingUsers == {1, 2}

\* AIInsight.objects.create(...) of the job
create_insight(rows, user, text, days) ==
    Append(rows, [user |-> user, insight_type |-> "productivity_trend",
                  content |-> text, total_metrics_days |-> days,
                  confidence_tenths |-> ConfidenceTenths, is_actionable |-> TRUE])

\* six rows of user 1 for the last six days, and possibly one more row: a
\* seventh recent day, the day 30 days back, the day before it, or a row of
\* another user
MetricRows ==
    LET six == {[user |-> 1, date |-> 0 - d] : d \in 0..5} IN
    {six} \cup {six \cup {m} : m \in {[user |-> 1, date |-> 0 - 6],
                                      [user |-> 1, date |-> 0 - 30],
                                      [user |-> 1, date |-> 0 - 31],
                                      [user |-> 2, date |-> 0 - 6]}}

InsightsInit ==
    /\ now = 1
    /\ ticks = 0
    /\ \E short \in BOOLEAN :
          quotas = [JobQuotaRows(MaxRequests) EXCEPT
                       !["monthly"].max_tokens =
                           IF short THEN estimate_tokens(PromptWords) - 1
                           ELSE estimate_tokens(PromptWords) + MaxTokens]
    /\ \E a \in BOOLEAN :
          templates = <<[name |-> "insights",
                         template_type |-> "productivity_insights",
                         placeholders |-> {"content"}, is_active |-> a]>>
    /\ logs = <<>>
    /\ call = IdleCall
    /\ calls = 0
    /\ lastOp = NoOp
    /\ ops = 0
    /\ workers = IdleWorkers
    /\ notes = <<>>
    /\ tasks = <<>>
    /\ job = IdleJob
    /\ queue = <<>>
    /\ trigger = NoTrigger
    /\ events = 0
    /\ metrics \in MetricRows
    /\ insights = <<>>
    /\ view = IdleView
    /\ cache = <<>>
    /\ mw = <<>>
    /\ rules = <<>>
    /\ parse = NoParse

\* generate_productivity_insights(user_id) begins
InsStart ==
    /\ job.pc = "idle"
    /\ events < MaxEvents
    /\ \E user_id \in {1, 3} :
          job' = [IdleJob EXCEPT
             !.pc = "gather", !.kind = "insights", !.id = user_id,
             !.pre = [logs |-> logs, quotas |-> quotas, calls |-> calls,
                      insights |-> insights]]
    /\ events' = events + 1
    /\ UNCHANGED <<clockVars, quotas, orchVars, ledgerVars, concVars, webVars, insVars,
                   notes, tasks, queue, trigger>>

\* User.objects.get, the counts, and with enough metrics the process_text
\* call is entered; otherwise the job returns 'skipped' ('error' for a
\* missing user)
InsGather ==
    /\ job.pc = "gather"
    /\ call.pc = "idle"
    /\ LET thirty_days_ago == now - InsightDays * HoursPerDay
           n == Cardinality(recent_metrics(metrics, job.id, thirty_days_ago))
       IN IF job.id \notin ExistingUsers
          THEN /\ job' = [job EXCEPT !.pc = "done", !.status = "error"]
               /\ UNCHANGED <<call, calls>>
          ELSE IF enough_metrics(n)
          THEN /\ job' = [job EXCEPT
                     !.pc = "insight",
                     !.inst = [thirty_days_ago |-> thirty_days_ago, count |-> n]]
               /\ call' = [IdleCall EXCEPT
                     !.pc = "check_quota", !.id = calls + 1,
                     !.words = PromptWords, !.rtype = "productivity_insights",
                     !.kw = {"content_type", "content_id"},
                     !.est = estimate_tokens(PromptWords),
                     !.pre = quotas, !.chk = quotas]
               /\ calls' = calls + 1
          ELSE /\ job' = [job EXCEPT
                     !.pc = "done", !.status = "skipped",
                     !.inst = [thirty_days_ago |-> thirty_days_ago, count |-> n]]
               /\ UNCHANGED <<call, calls>>
    /\ UNCHANGED <<clockVars, quotas, templates, logs, ledgerVars, concVars, webVars,
                   insVars, notes, tasks, queue, trigger, events>>

\* process_text has returned: the insight is created and the job returns
\* 'completed'; or it has raised: except Exception returns 'error'
InsReturn ==
    /\ job.pc = "insight"
    /\ call.pc \in {"returned", "raised"}
    /\ IF call.pc = "returned"
       THEN /\ insights' = create_insight(insights, job.id,
                                          call.resp.response_text, job.inst.count)
            /\ job' = [job EXCEPT !.pc = "done", !.status = "completed",
                                  !.op = call.id]
       ELSE /\ job' = [job EXCEPT !.pc = "done", !.status = "error",
                                  !.op = call.id]
            /\ UNCHANGED insights
    /\ call' = IdleCall
    /\ UNCHANGED <<clockVars, quotas, templates, logs, calls, ledgerVars,
                   concVars, webVars, metrics, notes, tasks, queue, trigger, events>>

\* the job has returned
InsFinish ==
    /\ job.pc = "done"
    /\ job' = IdleJob
    /\ UNCHANGED <<clockVars, quotas, orchVars, ledgerVars, concVars, webVars, insVars,
                   notes, tasks, queue, trigger, events>>

InsightsNext ==
    \/ JTick
    \/ InsStart
    \/ InsGather
    \/ PTCheckQuota
    \/ PTTemplate
    \/ PTRender
    \/ PTProvider
    \/ PTLog
    \/ PTUpdateQuota
    \/ InsReturn
    \/ InsFinish

SpecInsights == InsightsInit /\ [][InsightsNext]_vars

\* the metrics rows of the job's user dated no earlier than the day 30 days
\* before the job counted them
CountedDays ==
    Cardinality({m \in metrics :
                   /\ m.user = job.id
                   /\ m.date >= (job.inst.thirty_days_ago \div 24)})

HTTP_200 == 200
HTTP_400 == 400
HTTP_429 == 429
HTTP_500 == 500
HTTP_503 == 503

\* if len(text.split()) < 5: 'Text too short for analysis'
MinTextWords == 5

\* the wrappers analyze_text calls for request.data['type'], in their order;
\* none for a type it does not know
AnalysisOps(type) ==
    CASE type = "summarize" -> <<"summary">>
      [] type = "keywords" -> <<"keywords">>
      [] type = "sentiment" -> <<"sentiment">>
      [] type = "topics" -> <<"topics">>
      [] type = "tags" -> <<"tags">>
      [] type = "all" -> <<"summary", "keywords", "sentiment", "topics">>
      [] OTHER -> <<>>

\* the types a client sends: the six of the endpoint and an unknown one
AnalysisTypes ==
    {"summarize", "keywords", "sentiment", "topics", "tags", "all", "translate"}

\* the process_text call a wrapper makes for the endpoints: OpInput with the
\* keyword arguments of the views (ip_address, user_agent; count and
\* existing_tags where the wrapper adds them)
ViewOpInput(op) ==
    IF op = "tags"
    THEN [rtype |-> "suggest_tags", tname |-> "",
          kw |-> {"existing_tags", "ip_address", "user_agent"}]
    ELSE [OpInput(op) EXCEPT
            !.kw = (@ \ {"content_type", "content_id"})
                      \cup {"ip_address", "user_agent"}]

\* the number of words of the text a wrapper sends for the request v:
\* the text; the title (context is empty); title and description
ViewOpWords(op, v) ==
    IF v.endpoint = "analyze_text" THEN v.words
    ELSE IF op = "priority" THEN v.title_words
    ELSE v.title_words + v.description_words

\* the except clauses of the endpoints: AIQuotaExceededError, then
\* AIServiceError (AIRateLimitError is a subclass), then Exception
http_status(exc) ==
    CASE exc = "AIQuotaExceededError" -> HTTP_429
      [] exc \in {"AIRateLimitError", "AIServiceError"} -> HTTP_503
      [] OTHER -> HTTP_500

\* the templates of the request types of the endpoints; the time estimation
\* template may be inactive
ViewTemplateRows(a) ==
    LET t == JobTemplateRows(TRUE) IN
    [i \in DOMAIN t |->
        IF t[i].template_type = "time_estimation"
        THEN [t[i] EXCEPT !.is_active = a] ELSE t[i]]
    \o <<[name |-> "tags", template_type |-> "suggest_tags",
          placeholders |-> {"content", "existing_tags"}, is_active |-> TRUE]>>

ViewInit ==
    /\ now = 1
    /\ ticks = 0
    /\ \E mr \in {0, 1, MaxRequests + 2} : quotas = JobQuotaRows(mr)
    /\ \E a \in BOOLEAN : templates = ViewTemplateRows(a)
    /\ logs = <<>>
    /\ call = IdleCall
    /\ calls = 0
    /\ lastOp = NoOp
    /\ ops = 0
    /\ workers = IdleWorkers
    /\ notes = <<>>
    /\ tasks = <<>>
    /\ job = IdleJob
    /\ queue = <<>>
    /\ trigger = NoTrigger
    /\ events = 0
    /\ metrics = {}
    /\ insights = <<>>
    /\ view = IdleView
    /\ cache = <<>>
    /\ mw = <<>>
    /\ rules = <<>>
    /\ parse = NoParse

\* what the endpoints leave alone
offView == <<ledgerVars, concVars, jobVars, insVars, cache, mw, parse, rules>>

\* a POST arrives at analyze_text or analyze_task
ViewRequest ==
    /\ view.pc = "idle"
    /\ call.pc = "idle"
    /\ events < MaxEvents
    /\ \/ \E type \in AnalysisTypes, w \in {0, MinTextWords - 1, MinTextWords} :
             view' = [IdleView EXCEPT
                !.pc = "validate", !.endpoint = "analyze_text", !.type = type,
                !.words = w,
                !.pre = [quotas |-> quotas, logs |-> logs, calls |-> calls]]
       \/ \E tw \in 0..1, dw \in 0..1 :
             view' = [IdleView EXCEPT
                !.pc = "validate", !.endpoint = "analyze_task",
                !.title_words = tw, !.description_words = dw,
                !.pre = [quotas |-> quotas, logs |-> logs, calls |-> calls]]
    /\ events' = events + 1
    /\ UNCHANGED <<clockVars, quotas, orchVars, ledgerVars, concVars, insVars,
                   notes, tasks, job, queue, trigger, cache, mw, parse, rules>>

\* the checks before the try: a missing text or title, a text too short
ViewValidate ==
    /\ view.pc = "validate"
    /\ LET bad == IF view.endpoint = "analyze_text"
                  THEN view.words = 0 \/ view.words < MinTextWords
                  ELSE view.title_words = 0
       IN view' = IF bad THEN [view EXCEPT !.pc = "done", !.status = HTTP_400]
                  ELSE [view EXCEPT !.pc = "service"]
    /\ UNCHANGED <<clockVars, quotas, orchVars, offView>>

\* ai_service = get_ai_service(user=request.user): OpenAIService.__init__
\* builds the client, which raises when no API key is configured (an
\* exception that is no AIServiceError); then the dispatch on the type
ViewService ==
    /\ view.pc = "service"
    /\ \E configured \in BOOLEAN :
          LET wrappers == IF view.endpoint = "analyze_text"
                          THEN AnalysisOps(view.type) ELSE TaskOps
          IN view' =
                IF ~configured
                THEN [view EXCEPT !.pc = "done", !.exc = "Exception",
                                  !.status = http_status("Exception")]
                ELSE IF wrappers = <<>>
                THEN [view EXCEPT !.pc = "done", !.status = HTTP_400]
                ELSE [view EXCEPT !.pc = "ops", !.ops = wrappers, !.op = 1]
    /\ UNCHANGED <<clockVars, quotas, orchVars, offView>>

\* the current wrapper enters process_text
ViewOpCall ==
    /\ view.pc = "ops"
    /\ call.pc = "idle"
    /\ LET op == view.ops[view.op]
           in == ViewOpInput(op)
           w == ViewOpWords(op, view)
       IN call' = [IdleCall EXCEPT !.pc = "check_quota", !.id = calls + 1,
                                   !.words = w, !.rtype = in.rtype,
                                   !.tname = in.tname, !.kw = in.kw,
                                   !.est = estimate_tokens(w),
                                   !.pre = quotas, !.chk = quotas]
    /\ calls' = calls + 1
    /\ view' = [view EXCEPT !.pc = "wait"]
    /\ UNCHANGED <<clockVars, quotas, templates, logs, offView>>

\* process_text has returned: the next wrapper, or the 200 response after
\* the last; or it has raised: the except clause that matches answers
ViewOpReturn ==
    /\ view.pc = "wait"
    /\ call.pc \in {"returned", "raised"}
    /\ LET ok == call.pc = "returned"
           r == [op |-> view.ops[view.op], ok |-> ok, call |-> call.id,
                 consumed |-> "update_quota" \in {call.steps[i] : i \in DOMAIN call.steps}]
       IN view' =
             IF ~ok
             THEN [view EXCEPT !.pc = "done", !.exc = call.exc,
                               !.status = http_status(call.exc),
                               !.results = Append(@, r)]
             ELSE IF view.op = Len(view.ops)
             THEN [view EXCEPT !.pc = "done", !.status = HTTP_200,
                               !.results = Append(@, r)]
             ELSE [view EXCEPT !.pc = "ops", !.op = @ + 1,
                               !.results = Append(@, r)]
    /\ call' = IdleCall
    /\ UNCHANGED <<clockVars, quotas, templates, logs, calls, offView>>

\* the response is sent
ViewFinish ==
    /\ view.pc = "done"
    /\ view' = IdleView
    /\ UNCHANGED <<clockVars, quotas, orchVars, offView>>

ViewTick == call.pc = "idle" /\ Tick /\ UNCHANGED <<quotas, orchVars, offOrch>>

ViewNext ==
    \/ ViewTick
    \/ ViewRequest
    \/ ViewValidate
    \/ ViewService
    \/ ViewOpCall
    \/ PTCheckQuota
    \/ PTTemplate
    \/ PTRender
    \/ PTProvider
    \/ PTLog
    \/ PTUpdateQuota
    \/ ViewOpReturn
    \/ ViewFinish

SpecView == ViewInit /\ [][ViewNext]_vars

\* C22 (as claimed): a request that ends in an exception is answered 429
\* for AIQuotaExceededError, 503 for any other AIServiceError and 500 for
\* every other exception, and a request answered with an error has consumed
\* no quota: no process_text call of it reached update_quota, and
\* used_requests of the monthly row is not above its value before the
\* request.
C22_ErrorResponseNoPartialState ==
    (view.pc = "done" /\ view.status # 200) =>
        /\ view.exc = "AIQuotaExceededError" => view.status = 429
        /\ view.exc \in {"AIRateLimitError", "AIServiceError"} => view.status = 503
        /\ view.exc = "Exception" => view.status = 500
        /\ view.exc = "none" => view.status = 400
        /\ \A i \in DOMAIN view.results : ~view.results[i].consumed
        /\ quotas["monthly"].used_requests <= view.pre.quotas["monthly"].used_requests

\* ------------------------------------------------------ response parser spec
\* The parsers the wrappers apply to a response text (services.py), on
\* texts put together from a few fragments.

MaxFragments == 2      \* fragments of a response text

\* 'This is ', 'URGENT', 'Critical', 'high', 'Low', 'low effort',
\* 'moderate, ', ' ', 'x'
PriorityFragments ==
    {<<"T", "h", "i", "s", " ", "i", "s", " ">>,
     <<"U", "R", "G", "E", "N", "T">>,
     <<"C", "r", "i", "t", "i", "c", "a", "l">>,
     <<"h", "i", "g", "h">>,
     <<"L", "o", "w">>,
     <<"l", "o", "w", " ", "e", "f", "f", "o", "r", "t">>,
     <<"m", "o", "d", "e", "r", "a", "t", "e", ",", " ">>,
     <<" ">>,
     <<"x">>}

\* '["a","b","c"]', '["a"', ',"b"]', 'a', 'a, b', ', c', '"a, b"', '7', ' ',
\* '[]'
KeywordFragments ==
    {<<"[", "\"", "a", "\"", ",", "\"", "b", "\"", ",", "\"", "c", "\"", "]">>,
     <<"[", "\"", "a", "\"">>,
     <<",", "\"", "b", "\"", "]">>,
     <<"a">>,
     <<"a", ",", " ", "b">>,
     <<",", " ", "c">>,
     <<"\"", "a", ",", " ", "b", "\"">>,
     <<"7">>,
     <<" ">>,
     <<"[", "]">>}

\* count of extract_keywords: the endpoint passes request.data['count'], the
\* note job 8, and the default is 10
KeywordCounts == {1, 2, KeywordCount, 10}

RECURSIVE concat(_)
concat(parts) == IF parts = <<>> THEN <<>> ELSE Head(parts) \o concat(Tail(parts))

\* the texts of at most MaxFragments fragments
TextsOf(fragments) ==
    {concat(f) : f \in UNION {[1..k -> fragments] : k \in 0..MaxFragments}}

ParseInit ==
    /\ now = 1
    /\ ticks = 0
    /\ quotas = JobQuotaRows(MaxRequests)
    /\ templates = <<>>
    /\ logs = <<>>
    /\ call = IdleCall
    /\ calls = 0
    /\ lastOp = NoOp
    /\ ops = 0
    /\ workers = IdleWorkers
    /\ notes = <<>>
    /\ tasks = <<>>
    /\ job = IdleJob
    /\ queue = <<>>
    /\ trigger = NoTrigger
    /\ events = 0
    /\ metrics = {}
    /\ insights = <<>>
    /\ view = IdleView
    /\ cache = <<>>
    /\ mw = <<>>
    /\ rules = <<>>
    /\ \/ \E t \in TextsOf(PriorityFragments) :
             parse = [NoParse EXCEPT !.pc = "response", !.fn = "priority",
                                     !.text = t]
       \/ \E t \in TextsOf(KeywordFragments), c \in KeywordCounts :
             parse = [NoParse EXCEPT !.pc = "response", !.fn = "keywords",
                                     !.text = t, !.count = c]

\* what the parsers leave alone
offParse == <<clockVars, quotas, ledgerVars, orchVars, concVars, jobVars, insVars,
              view, cache, mw, rules>>

\* analyze_task_priority returns for the response text
ParsePriority ==
    /\ parse.pc = "response"
    /\ parse.fn = "priority"
    /\ parse' = [parse EXCEPT !.pc = "done", !.out = priority_of(parse.text)]
    /\ UNCHANGED offParse

\* extract_keywords returns for the response text
ParseKeywords ==
    /\ parse.pc = "response"
    /\ parse.fn = "keywords"
    /\ parse' = [parse EXCEPT !.pc = "done",
                              !.out = keywords_of(parse.text, parse.count)]
    /\ UNCHANGED offParse

ParseNext == ParsePriority \/ ParseKeywords

SpecParse == ParseInit /\ [][ParseNext]_vars

\* the text parsed, in lower case, has the word somewhere in it
HasWord(word) ==
    \E i, j \in DOMAIN parse.text : SubSeq(lower(parse.text), i, j) = word

\* C24: analyze_task_priority returns for every response text one of the
\* four levels: 'urgent' if the text, whatever its case, has 'urgent' or
\* 'critical' in it, else 'high' if it has 'high', else 'low' if it has
\* 'low', else 'medium'; so 'This is URGENT' gives 'urgent' and 'moderate,
\* low effort' gives 'low'.
C24_PriorityFirstMatchWins ==
    (parse.pc = "done" /\ parse.fn = "priority") =>
        /\ parse.out \in {"urgent", "high", "low", "medium"}
        /\ parse.out =
              IF HasWord(<<"u", "r", "g", "e", "n", "t">>)
                 \/ HasWord(<<"c", "r", "i", "t", "i", "c", "a", "l">>)
              THEN "urgent"
              ELSE IF HasWord(<<"h", "i", "g", "h">>) THEN "high"
              ELSE IF HasWord(<<"l", "o", "w">>) THEN "low"
              ELSE "medium"
        /\ parse.text = <<"T", "h", "i", "s", " ", "i", "s", " ", "U", "R", "G", "E", "N", "T">> => parse.out = "urgent"
        /\ parse.text = <<"m", "o", "d", "e", "r", "a", "t", "e", ",", " ", "l", "o", "w", " ", "e", "f", "f", "o", "r", "t">> => parse.out = "low"

\* 'Lowhigh' was parsed: both words, 'low' ahead of 'high' in the text
C24_Witness ==
    /\ parse.pc = "done"
    /\ parse.fn = "priority"
    /\ parse.text = <<"L", "o", "w", "h", "i", "g", "h">>
    /\ parse.out = "high"

\* C25 (as claimed): extract_keywords returns for every response text a
\* list of at most count items: the first count elements of the list when
\* the text decodes as a JSON list, and in every other case the first count
\* of the trimmed pieces between its commas; so '["a","b","c"]' and
\* 'a, b, c' both give [a, b, c] for count 10.
C25_KeywordsListOrCommaSplit ==
    (parse.pc = "done" /\ parse.fn = "keywords") =>
        LET decoded == json_loads(parse.text)
            pieces == split(parse.text)
            trimmed == [i \in DOMAIN pieces |-> strip_of(pieces[i], Whitespace)]
            first(list) == SubSeq(list, 1, IF Len(list) < parse.count
                                           THEN Len(list) ELSE parse.count)
        IN /\ Len(parse.out) <= parse.count
           /\ parse.out = IF decoded.kind = "list" THEN first(decoded.value)
                          ELSE first(trimmed)
           /\ (parse.count = 10
                /\ parse.text \in {<<"[", "\"", "a", "\"", ",", "\"", "b", "\"", ",", "\"", "c", "\"", "]">>,
                                   <<"a", ",", " ", "b", ",", " ", "c">>}) =>
                 parse.out = <<<<"a">>, <<"b">>, <<"c">>>>

\* ------------------------------------------------------- rate limit spec
\* RateLimitMiddleware (core/middleware.py): every request goes through
\* process_request before its view; requests of one client are served by
\* several threads or processes at once, all on the same cache.

NumRequests == 3       \* requests of the client per behaviour

\* time_window of a rule, in hours (the default is 3600 seconds)
TimeWindow == 1

\* the paths requested: an API endpoint, and the admin site
Paths == {"/api/", "/admin/"}

\* request.path.startswith('/admin/') or startswith('/static/')
skipped_path(path) == path \in {"/admin/", "/static/"}

\* _matches_pattern, for the patterns '/api/*' and '/admin/*' and the paths
\* of Paths: the path begins with what the pattern has before its '*'
matches_pattern(path, pattern) ==
    \/ pattern = "/api/*" /\ path = "/api/"
    \/ pattern = "/admin/*" /\ path = "/admin/"

\* cache.get(key, default): the value of a key that is set and has not
\* expired
cache_get(c, key, default, t) ==
    IF key \in DOMAIN c /\ c[key].expires > t THEN c[key].value ELSE default

\* cache.set(key, value, timeout)
cache_set(c, key, value, timeout, t) ==
    [k \in DOMAIN c \cup {key} |->
        IF k = key THEN [value |-> value, expires |-> t + timeout] ELSE c[k]]

\* f"rate_limit_{rule.id}_{identifier}"
cache_key(rule_id, identifier) == <<"rate_limit", rule_id, identifier>>

\* RateLimitRule.objects.filter(is_active=True), in the order of the ids
active_rules(tbl) ==
    LET RECURSIVE from(_)
        from(i) == IF i > Len(tbl) THEN <<>>
                   ELSE (IF tbl[i].is_active THEN <<i>> ELSE <<>>) \o from(i + 1)
    IN from(1)

\* a request that has not reached the middleware
NewRequest ==
    [pc |-> "new", path |-> "", ids |-> <<>>, idx |-> 0, current_count |-> 0,
     status |-> 0, counted |-> FALSE, at |-> 0]

\* the client of the requests: an authenticated free user
Identifier == "user_1"
UserType == "free"

LimitInit ==
    /\ now = 1
    /\ ticks = 0
    /\ quotas = JobQuotaRows(MaxRequests)
    /\ templates = <<>>
    /\ logs = <<>>
    /\ call = IdleCall
    /\ calls = 0
    /\ lastOp = NoOp
    /\ ops = 0
    /\ workers = IdleWorkers
    /\ notes = <<>>
    /\ tasks = <<>>
    /\ job = IdleJob
    /\ queue = <<>>
    /\ trigger = NoTrigger
    /\ events = 0
    /\ metrics = {}
    /\ insights = <<>>
    /\ view = IdleView
    /\ cache = <<>>
    /\ mw = [r \in 1..NumRequests |-> NewRequest]
    /\ parse = NoParse
    /\ \E m \in {1, MaxRequests}, u \in {"all", "free", "premium"} :
          rules = <<[endpoint_pattern |-> "/api/*", max_requests |-> 0,
                     time_window |-> TimeWindow, user_type |-> "all",
                     is_active |-> FALSE],
                    [endpoint_pattern |-> "/api/*", max_requests |-> m,
                     time_window |-> TimeWindow, user_type |-> u,
                     is_active |-> TRUE]>>

\* what the middleware leaves alone
offLimit == <<quotas, ledgerVars, orchVars, concVars, jobVars, insVars, view, parse,
              rules>>

\* the rule at position idx of the request's rules is done with: the next
\* rule, or return None after the last (the request goes on to its view)
next_rule(req, t) ==
    IF req.idx = Len(req.ids)
    THEN [req EXCEPT !.pc = "done", !.status = HTTP_200, !.at = t]
    ELSE [req EXCEPT !.pc = "rule", !.idx = @ + 1]

\* process_request begins: admin and static paths return None at once;
\* otherwise the active rules are read
MwEnter(r) ==
    /\ mw[r].pc = "new"
    /\ \E path \in Paths :
          mw' = [mw EXCEPT ![r] =
             IF skipped_path(path)
             THEN [@ EXCEPT !.pc = "done", !.path = path, !.status = HTTP_200,
                            !.at = now]
             ELSE LET ids == active_rules(rules) IN
                  IF ids = <<>>
                  THEN [@ EXCEPT !.pc = "done", !.path = path,
                                 !.status = HTTP_200, !.at = now]
                  ELSE [@ EXCEPT !.pc = "rule", !.path = path, !.ids = ids,
                                 !.idx = 1]]
    /\ UNCHANGED <<clockVars, cache, offLimit>>

\* the loop body up to cache.get: a rule whose pattern or user type does not
\* match is passed over; current_count = cache.get(cache_key, 0); at
\* current_count >= rule.max_requests the 429 response is returned
MwRead(r) ==
    /\ mw[r].pc = "rule"
    /\ LET req == mw[r]
           id == req.ids[req.idx]
           rule == rules[id]
           count == cache_get(cache, cache_key(id, Identifier), 0, now)
       IN mw' = [mw EXCEPT ![r] =
             IF ~matches_pattern(req.path, rule.endpoint_pattern)
             THEN next_rule(req, now)
             ELSE IF rule.user_type # "all" /\ rule.user_type # UserType
             THEN next_rule(req, now)
             ELSE IF count >= rule.max_requests
             THEN [req EXCEPT !.pc = "done", !.status = HTTP_429, !.at = now,
                              !.current_count = count]
             ELSE [req EXCEPT !.pc = "set", !.current_count = count]]
    /\ UNCHANGED <<clockVars, cache, offLimit>>

\* cache.set(cache_key, current_count + 1, rule.time_window); return True
MwSet(r) ==
    /\ mw[r].pc = "set"
    /\ LET req == mw[r]
           id == req.ids[req.idx]
       IN /\ cache' = cache_set(cache, cache_key(id, Identifier),
                                req.current_count + 1, rules[id].time_window, now)
          /\ mw' = [mw EXCEPT ![r] = next_rule([req EXCEPT !.counted = TRUE], now)]
    /\ UNCHANGED <<clockVars, offLimit>>

\* an hour passes: the keys set before it have expired
LimitTick ==
    /\ ticks < MaxTicks
    /\ now' = now + 1
    /\ ticks' = ticks + 1
    /\ UNCHANGED <<cache, mw, offLimit>>

LimitNext ==
    \/ LimitTick
    \/ \E r \in 1..NumRequests : MwEnter(r) \/ MwRead(r) \/ MwSet(r)

SpecLimit == LimitInit /\ [][LimitNext]_vars

\* the requests the limited rule counted and admitted in the current hour,
\* that is since the counter key last expired
AdmittedNow ==
    {r \in 1..NumRequests :
        /\ mw[r].pc = "done"
        /\ mw[r].counted
        /\ mw[r].status = 200
        /\ mw[r].at = now}

\* C30 (as claimed): between two expirations of the counter key the active
\* rule admits at most max_requests of the client's matching requests, in
\* every interleaving, and a request answered with 429 has left the cache as
\* it found it.
C30_AtMostMaxAdmitted ==
    /\ Cardinality(AdmittedNow) <= rules[2].max_requests
    /\ \A r \in 1..NumRequests :
          (mw[r].pc = "done" /\ mw[r].status = 429) =>
             /\ mw[r].current_count >= rules[2].max_requests
             /\ ~mw[r].counted

====
